---- MODULE Spec2Model ----
(***************************************************************************)
(* Admin authentication of the tangiblelearning backend: the Admin model   *)
(* (password hashing on save, comparePassword, updateLastLogin), the       *)
(* /api/auth routes (login, register, change-password, logout) and the     *)
(* authenticateAdmin middleware.                                           *)
(*                                                                         *)
(* Every handler is cut at the awaits that reach the database: one action  *)
(* per database round trip, the synchronous code and the bcrypt calls      *)
(* around it (which only touch the loaded document) belonging to the same  *)
(* action.  Two requests at a time run concurrently, one in each slot.    *)
(***************************************************************************)
EXTENDS Integers, Sequences, FiniteSets, TLC

\* ---------------------------------------------------------------- bounds
MaxAdmins == 3      \* administrator ids 1..MaxAdmins
MaxTime   == 2      \* clock values 1..MaxTime
MaxTokens == 2      \* tokens issued in one behaviour
MaxClock  == 3      \* clock values of the contact form's behaviours
MaxBurst  == 6      \* requests one address sends in such a behaviour
MaxQuotaClock == 4  \* clock values of the quota behaviours
MaxMails  == 2      \* submissions stored in a behaviour of the notifications
MaxContacts == 1    \* contacts the administrators manage in a behaviour

\* ------------------------------------------------------ program constants
TokenLifetime == 1  \* JWT_EXPIRES_IN, in clock ticks
MinPasswordLen == 6
NoDate == 0         \* lastLogin never set

\* The clock counts units of five minutes.
DupWindow     == 1    \* 5 * 60 * 1000 ms
GeneralWindow == 3    \* 15 * 60 * 1000 ms
GeneralMax    == 100
ContactWindow == 12   \* 60 * 60 * 1000 ms
ContactMax    == 5
MinMessageLen == 10

AdminIds == 1..MaxAdmins
Slots    == {1, 2}   \* two requests in flight at once
Times    == 1..MaxTime

SeedUsername == "superadmin"
SeedEmail    == "naveenp@tangiblelearning.in"
SeedPassword == "admin123456"

Usernames  == {SeedUsername, "editor"}
Emails     == {SeedEmail, "editor@tangiblelearning.in"}
Roles      == {"admin", "super_admin"}
Plaintexts == {SeedPassword, "newpass1", "abc"}

\* ------------------------------------------------------------- passwords
\* A password value is a plaintext with the number of bcrypt rounds applied
\* to it: 0 = the plaintext itself, 1 = a hash, 2 = the hash of a hash.  The
\* salt is not represented: the hashes of one plaintext under different salts
\* are one value here.
Plain(p) == [pt |-> p, rounds |-> 0]

IsHash(v) == v.rounds = 1

\* bcrypt.hash(value, await bcrypt.genSalt(12))
BcryptHash(v) == [v EXCEPT !.rounds = @ + 1]

\* bcrypt.compare(candidate, stored): hashes the candidate the way the stored
\* value was hashed; false when the stored value is not a hash.
BcryptCompare(candidate, stored) ==
    /\ stored.rounds >= 1
    /\ candidate.pt = stored.pt
    /\ candidate.rounds = stored.rounds - 1

NoPassword == Plain("")

\* ----------------------------------------------------------- admin records
\* A document is the record as loaded into memory: the stored fields, the
\* set of paths modified since load, and whether it was never saved.
NoDoc ==
    [id |-> 0, username |-> "", email |-> "", password |-> NoPassword,
     role |-> "", isActive |-> FALSE, lastLogin |-> NoDate,
     modified |-> {}, isNew |-> FALSE]

\* new Admin({...}): schema defaults isActive = true, role given by caller
NewAdmin(id, username, email, password, role) ==
    [id |-> id, username |-> username, email |-> email,
     password |-> password, role |-> role, isActive |-> TRUE,
     lastLogin |-> NoDate,
     modified |-> {"username", "email", "password", "role"},
     isNew |-> TRUE]

\* The length the validators see: a plaintext's own length, 60 characters
\* for a bcrypt hash string.
PwLength(v) == IF v.rounds = 0 THEN Len(v.pt) ELSE 60

\* Mongoose's document setter: a path becomes modified only when the value
\* assigned differs from the one the document holds.
DocSet(doc, field, value) ==
    IF doc[field] = value
    THEN doc
    ELSE [doc EXCEPT ![field] = value, !.modified = @ \cup {field}]

\* adminSchema.methods.comparePassword
comparePassword(doc, candidate) == BcryptCompare(candidate, doc.password)

\* a pre('save') hook that hashes the password of new documents only
PreSave_NewOnly(doc) ==
    IF ~doc.isNew THEN doc
    ELSE DocSet(doc, "password", BcryptHash(doc.password))

\* a pre('save') hook without the isModified test
PreSave_Always(doc) ==
    DocSet(doc, "password", BcryptHash(doc.password))

\* adminSchema.pre('save'): hash the password only when it was modified
PreSave(doc) ==
    IF "password" \notin doc.modified
    THEN doc
    ELSE DocSet(doc, "password", BcryptHash(doc.password))

\* an updateLastLogin that saves without setting the date
updateLastLogin_NoTouch(doc, t) == doc

\* adminSchema.methods.updateLastLogin, up to the save
updateLastLogin(doc, t) == DocSet(doc, "lastLogin", t)

\* ------------------------------------------------------------------ tokens
NoToken        == [id |-> 0, username |-> "", role |-> "", iat |-> 0,
                   exp |-> 0, sig |-> "none"]
MalformedToken == [id |-> 0, username |-> "", role |-> "", iat |-> 0,
                   exp |-> 0, sig |-> "malformed"]

\* jwt.sign with the role left at the schema default
JwtSign_DefaultRole(doc, t) ==
    [id |-> doc.id, username |-> doc.username, role |-> "admin",
     iat |-> t, exp |-> t + TokenLifetime, sig |-> "server"]

\* jwt.sign({id, username, role}, secret, {expiresIn})
JwtSign(doc, t) ==
    [id |-> doc.id, username |-> doc.username, role |-> doc.role,
     iat |-> t, exp |-> t + TokenLifetime, sig |-> "server"]

\* jwt.verify that lets a token live through the second it expires in
JwtVerify_OffByOne(token, t) ==
    IF token.sig # "server" THEN "JsonWebTokenError"
    ELSE IF t > token.exp THEN "TokenExpiredError"
    ELSE "ok"

\* jwt.verify(token, secret): the signature is checked before the expiry
JwtVerify(token, t) ==
    IF token.sig # "server" THEN "JsonWebTokenError"
    ELSE IF t >= token.exp THEN "TokenExpiredError"
    ELSE "ok"

\* Tokens a client can build without the secret: any payload, never a
\* signature that verifies.
ForgedTokens ==
    {[id |-> 1, username |-> SeedUsername, role |-> "super_admin",
      iat |-> 1, exp |-> MaxTime + TokenLifetime + 1, sig |-> "forged"]}

VARIABLES
    db,      \* the admins collection: AdminIds -> stored document or NoDoc
    now,     \* the clock
    reqs,    \* the request handled in each slot
    issued,  \* the tokens handed out by login so far
    contacts,  \* the contacts collection, in insertion order
    hits,      \* the two rate limiters' counters, per client address
    creqs,     \* the /api request handled in each slot of the main server
    notified,  \* the contacts sendNotificationEmail was called for
    held,      \* the contact each contact-management handler works on
    mailLog    \* the mails whose sending has ended, with the way it ended

contactVars == <<contacts, hits, creqs, notified>>
mgmtVars == <<held, mailLog>>
vars == <<db, now, reqs, issued, contacts, hits, creqs, notified, held,
          mailLog>>

Exists(a) == db[a].id # 0

\* Admin.findOne(filter), given the ids of the documents the filter matches:
\* the first of them in _id order
FindOne(matches) ==
    IF matches = {}
    THEN NoDoc
    ELSE db[CHOOSE a \in matches : \A b \in matches : a <= b]

\* Admin.findById(id)
FindById(id) == IF id \in AdminIds /\ Exists(id) THEN db[id] ELSE NoDoc

\* The unique indexes on username and email (E11000 on insert)
UniqueViolation(doc) ==
    \E a \in AdminIds :
        /\ Exists(a)
        /\ (db[a].username = doc.username \/ db[a].email = doc.email)

\* Schema validation that save runs before the pre('save') hook
SchemaValid(doc) ==
    "password" \in doc.modified => PwLength(doc.password) >= MinPasswordLen

\* The _id a new document gets
FreeId == CHOOSE a \in AdminIds :
              ~Exists(a) /\ \A b \in AdminIds : ~Exists(b) => a <= b

\* a save against a collection whose unique indexes were never built
SaveOk_NoIndex(doc) ==
    /\ SchemaValid(doc)
    /\ (~doc.isNew /\ doc.modified # {}) => Exists(doc.id)

\* document.save(): does it succeed against the present collection.  A
\* document with no modified path sends nothing to the database.
SaveOk(doc) ==
    /\ SchemaValid(doc)
    /\ doc.isNew => ~UniqueViolation(doc)
    /\ (~doc.isNew /\ doc.modified # {}) => Exists(doc.id)

\* a save that writes the whole document as it was loaded
SaveDb_WholeDocument(doc) ==
    LET d == PreSave(doc) IN
    IF d.isNew
    THEN [db EXCEPT ![FreeId] =
             [d EXCEPT !.id = FreeId, !.modified = {}, !.isNew = FALSE]]
    ELSE IF d.modified = {}
    THEN db
    ELSE [db EXCEPT ![d.id] = [d EXCEPT !.modified = {}]]

\* document.save(): the collection after the hook ran and the write was
\* made.  A new document is inserted; an existing one has its modified paths
\* written, nothing else.
SaveDb(doc) ==
    LET d == PreSave(doc) IN
    IF d.isNew
    THEN [db EXCEPT ![FreeId] =
             [d EXCEPT !.id = FreeId, !.modified = {}, !.isNew = FALSE]]
    ELSE IF d.modified = {}
    THEN db
    ELSE [db EXCEPT ![d.id] =
             [f \in DOMAIN db[d.id] |->
                 IF f \in d.modified THEN d[f] ELSE db[d.id][f]]]

\* ---------------------------------------------------------------- requests
NoAdmin == [id |-> 0, username |-> "", email |-> "", role |-> ""]
NoBody  == [username |-> "", email |-> "", password |-> NoPassword,
            newPassword |-> NoPassword, role |-> ""]

IdleReq ==
    [pc |-> "idle", token |-> NoToken, body |-> NoBody,
     admin |-> NoAdmin, doc |-> NoDoc,
     status |-> 0, message |-> "", resToken |-> NoToken]

NewReq(token) == [IdleReq EXCEPT !.token = token]

\* res.status(status).json({message, token}): the slot keeps the response
\* next to the bearer token the request came with as long as the middleware
\* held it; everything the handler held is dropped.
Respond(req, status, message, token) ==
    [req EXCEPT !.pc = "done", !.status = status, !.message = message,
                !.resToken = token, !.doc = NoDoc, !.body = NoBody,
                !.admin = NoAdmin]

\* A slot takes a new request when its last one was answered; new requests
\* go to the lowest such slot.
IsFree(r) == reqs[r].pc \in {"idle", "done"}
Free(r)   == IsFree(r) /\ \A q \in Slots : q < r => ~IsFree(q)

\* ------------------------------------------------------------ contact data
IPs == {"203.0.113.7"}

ContactEmails   == {"visitor@example.com", "Visitor@Example.com"}
ContactMessages == {"Please call me back", "Do you run workshops?", "hi"}
ApiRoutes       == {"contact", "auth", "admin"}

\* The routes of contactRoutes.js, all mounted behind the contact limiter:
\* POST /api/contact, GET /api/contact/stats and POST /api/contact/verify
ContactPaths    == {"contact", "contact_stats", "contact_verify"}

DuplicateMessage ==
    "Duplicate submission detected. Please wait before submitting again."
ThanksMessage ==
    "Thank you for your message! We will get back to you soon."
GeneralLimitMessage ==
    "Too many requests from this IP, please try again later."
ContactLimitMessage ==
    "Too many contact form submissions, please try again later."

\* a message that passes the validators and one that is too short
QuotaMessages == {"Please call me back", "hi"}

SubmitFailedMessage ==
    "Failed to submit contact form. Please try again later."

\* How a call of the mail service can end: the mail was sent; the send was
\* skipped because SMTP_USER or ADMIN_EMAIL is not set; the configuration was
\* missing and the service threw (sendReplyEmail); the construction of the
\* transporter threw; transporter.sendMail threw.
MailOutcomes == {"sent", "skipped", "transporter_error", "send_error"}
MailFailures == {"no_config", "transporter_error", "send_error"}

\* body('email').normalizeEmail(): the address in lower case
NormalizeEmail(e) == IF e = "Visitor@Example.com" THEN "visitor@example.com"
                     ELSE e

\* express-rate-limit keeps, per address, the hits of the current window and
\* the time the window ends
NoWindow == [count |-> 0, resetTime |-> 0]
NoHits   == [general |-> NoWindow, contact |-> NoWindow]

\* one more hit at time t: a window that has ended is replaced by a new one
Hit(w, windowLen, t) ==
    IF t >= w.resetTime
    THEN [count |-> 1, resetTime |-> t + windowLen]
    ELSE [w EXCEPT !.count = @ + 1]

NoContactBody == [email |-> "", message |-> ""]

IdleCReq ==
    [pc |-> "idle", ip |-> "", route |-> "", body |-> NoContactBody,
     since |-> 0, status |-> 0, message |-> "", id |-> 0]

NewCReq(ip, route) == [IdleCReq EXCEPT !.ip = ip, !.route = route]

\* res.status(status).json({message, data: {id}})
CRespond(req, status, message, id) ==
    [req EXCEPT !.pc = "done", !.status = status, !.message = message,
                !.id = id, !.since = 0]

\* The contact a handler of the admin routes asked for: the id of the
\* request, the status the handler read or assigned, and whether it
\* assigned one that differs from the stored one (the path is modified);
\* and the way the reply mail it awaited ended
NoHeld == [id |-> 0, status |-> "", modified |-> FALSE, mail |-> ""]

\* an id in the path that is not of the form of an ObjectId
MalformedId == 0 - 1

ContactStatuses == {"new", "read", "replied", "resolved"}

\* A deleted contact: its _id is never given to another
DeletedContact ==
    [email |-> "", message |-> "", createdAt |-> NoDate, ipAddress |-> "",
     status |-> "deleted"]

IsCFree(r) == creqs[r].pc \in {"idle", "done", "routed"}
CFree(r)   == IsCFree(r) /\ \A q \in Slots : q < r => ~IsCFree(q)

Init ==
    /\ db = [a \in AdminIds |-> NoDoc]
    /\ now = 1
    /\ reqs = [r \in Slots |-> IdleReq]
    /\ issued = {}
    /\ contacts = <<>>
    /\ hits = [ip \in IPs |-> NoHits]
    /\ creqs = [r \in Slots |-> IdleCReq]
    /\ notified = {}
    /\ held = [r \in Slots |-> NoHeld]
    /\ mailLog = {}

\* ------------------------------------------------------------- environment
\* The clock advances.
Tick ==
    /\ now < MaxTime
    /\ now' = now + 1
    /\ UNCHANGED <<db, reqs, issued>>
    /\ UNCHANGED contactVars
    /\ UNCHANGED mgmtVars

\* An operator of the database clears an administrator's isActive flag
\* (the soft disable of the schema; no route of the server sets the flag).
Deactivate(a) ==
    /\ Exists(a)
    /\ db[a].isActive
    /\ db' = [db EXCEPT ![a].isActive = FALSE]
    /\ UNCHANGED <<now, reqs, issued>>
    /\ UNCHANGED contactVars
    /\ UNCHANGED mgmtVars

\* scripts/setup.js: create the first super admin unless one exists
Setup ==
    /\ FindOne({a \in AdminIds :
                   Exists(a) /\ db[a].role = "super_admin"}) = NoDoc
    /\ \E a \in AdminIds : ~Exists(a)
    /\ LET doc == NewAdmin(0, SeedUsername, SeedEmail, Plain(SeedPassword),
                           "super_admin")
       IN /\ SaveOk(doc)
          /\ db' = SaveDb(doc)
    /\ UNCHANGED <<now, reqs, issued>>
    /\ UNCHANGED contactVars
    /\ UNCHANGED mgmtVars

\* ------------------------------------------------------ POST /api/auth/login
\* body('username').trim(): the sanitizer strips the surrounding blanks
Trim(s) == IF s = " superadmin " THEN "superadmin" ELSE s

LoginIdentifiers ==
    {SeedUsername, SeedEmail, "editor", " superadmin ", "ghost", ""}
LoginPasswords   == {Plain(SeedPassword), Plain("newpass1"), Plain("")}

\* validation, Admin.findOne({$or: [{username}, {email: username}],
\* isActive: true}) and comparePassword
\* a login that looks the account up first and tests isActive afterwards,
\* with a message of its own
LoginFindResult_Disabled(identifier, password) ==
    LET username == Trim(identifier)
        req == NewReq(NoToken)
        admin == FindOne({a \in AdminIds :
                            /\ Exists(a)
                            /\ (db[a].username = username
                                 \/ db[a].email = username)})
    IN  IF username = "" \/ PwLength(password) = 0
        THEN Respond(req, 400, "Validation failed", NoToken)
        ELSE IF admin = NoDoc
        THEN Respond(req, 401, "Invalid credentials", NoToken)
        ELSE IF ~admin.isActive
        THEN Respond(req, 401, "Account disabled", NoToken)
        ELSE IF ~comparePassword(admin, password)
        THEN Respond(req, 401, "Invalid credentials", NoToken)
        ELSE [req EXCEPT !.pc = "login_save", !.doc = admin]

LoginFindResult(identifier, password) ==
    LET username == Trim(identifier)
        req == NewReq(NoToken)
        admin == FindOne({a \in AdminIds :
                            /\ Exists(a)
                            /\ (db[a].username = username
                                 \/ db[a].email = username)
                            /\ db[a].isActive})
    IN  IF username = "" \/ PwLength(password) = 0
        THEN Respond(req, 400, "Validation failed", NoToken)
        ELSE IF admin = NoDoc
        THEN Respond(req, 401, "Invalid credentials", NoToken)
        ELSE IF ~comparePassword(admin, password)
        THEN Respond(req, 401, "Invalid credentials", NoToken)
        ELSE [req EXCEPT !.pc = "login_save", !.doc = admin]

LoginFind(r, identifier, password) ==
    /\ Free(r)
    /\ reqs' = [reqs EXCEPT ![r] = LoginFindResult(identifier, password)]
    /\ reqs'[r].pc = "login_save" =>
         Cardinality(issued)
           + Cardinality({q \in Slots : reqs[q].pc = "login_save"}) < MaxTokens
    /\ UNCHANGED <<db, now, issued>>
    /\ UNCHANGED contactVars
    /\ UNCHANGED mgmtVars

\* admin.updateLastLogin(), jwt.sign and the response
LoginSave(r) ==
    /\ reqs[r].pc = "login_save"
    /\ LET admin == updateLastLogin(reqs[r].doc, now)
           token == JwtSign(admin, now)
       IN IF SaveOk(admin)
          THEN /\ db' = SaveDb(admin)
               /\ issued' = issued \cup {token}
               /\ reqs' = [reqs EXCEPT ![r] =
                             Respond(@, 200, "Login successful", token)]
          ELSE /\ reqs' = [reqs EXCEPT ![r] =
                             Respond(@, 500, "Login failed", NoToken)]
               /\ UNCHANGED <<db, issued>>
    /\ UNCHANGED now
    /\ UNCHANGED contactVars
    /\ UNCHANGED mgmtVars

\* ------------------------------------------------------- authenticateAdmin
PresentedTokens == issued \cup ForgedTokens \cup {NoToken, MalformedToken}

\* A request to a route behind authenticateAdmin arrives: the header is read
\* and jwt.verify runs, synchronously.  The middleware is the same for every
\* route, so the route and the body of the request are drawn by the handler
\* that runs after it.
\* a catch block that does not recognise the errors of jwt.verify
AuthStartResult_Uncaught(token, t) ==
    LET req == NewReq(token)
        verdict == JwtVerify(token, t)
    IN  IF token = NoToken
        THEN Respond(req, 401, "Access denied. No token provided.", NoToken)
        ELSE IF verdict # "ok"
        THEN Respond(req, 500, "Authentication failed", NoToken)
        ELSE [req EXCEPT !.pc = "auth_lookup"]

AuthStartResult(token, t) ==
    LET req == NewReq(token)
        verdict == JwtVerify(token, t)
    IN  IF token = NoToken
        THEN Respond(req, 401, "Access denied. No token provided.", NoToken)
        ELSE IF verdict = "JsonWebTokenError"
        THEN Respond(req, 401, "Access denied. Invalid token.", NoToken)
        ELSE IF verdict = "TokenExpiredError"
        THEN Respond(req, 401, "Access denied. Token expired.", NoToken)
        ELSE [req EXCEPT !.pc = "auth_lookup"]

AuthStart(r, token) ==
    /\ Free(r)
    /\ reqs' = [reqs EXCEPT ![r] = AuthStartResult(token, now)]
    /\ UNCHANGED <<db, now, issued>>
    /\ UNCHANGED contactVars
    /\ UNCHANGED mgmtVars

\* Admin.findById(decoded.id), the isActive check, req.admin and next()
\* a lookup that only tests that the administrator exists
AuthLookupResult_NoActiveCheck(req) ==
    LET admin == FindById(req.token.id)
    IN  IF admin = NoDoc
        THEN Respond(req, 401,
               "Access denied. Invalid token or inactive account.", NoToken)
        ELSE [req EXCEPT !.pc = "handler", !.token = NoToken,
                         !.admin = [id |-> admin.id,
                                    username |-> admin.username,
                                    email |-> admin.email,
                                    role |-> admin.role]]

AuthLookupResult(req) ==
    LET admin == FindById(req.token.id)
    IN  IF admin = NoDoc \/ ~admin.isActive
        THEN Respond(req, 401,
               "Access denied. Invalid token or inactive account.", NoToken)
        ELSE [req EXCEPT !.pc = "handler", !.token = NoToken,
                         !.admin = [id |-> admin.id,
                                    username |-> admin.username,
                                    email |-> admin.email,
                                    role |-> admin.role]]

AuthLookup(r) ==
    /\ reqs[r].pc = "auth_lookup"
    /\ reqs' = [reqs EXCEPT ![r] = AuthLookupResult(@)]
    /\ UNCHANGED <<db, now, issued>>
    /\ UNCHANGED contactVars
    /\ UNCHANGED mgmtVars

\* ----------------------------------------------------- POST /api/auth/logout
\* a logout that takes the administrator's tokens back
Logout_Revoking(r) ==
    /\ reqs[r].pc = "handler"
    /\ reqs' = [reqs EXCEPT ![r] =
                  Respond(@, 200, "Logout successful", NoToken)]
    /\ issued' = {t \in issued : t.id # reqs[r].admin.id}
    /\ UNCHANGED <<db, now>>
    /\ UNCHANGED contactVars
    /\ UNCHANGED mgmtVars

Logout(r) ==
    /\ reqs[r].pc = "handler"
    /\ reqs' = [reqs EXCEPT ![r] =
                  Respond(@, 200, "Logout successful", NoToken)]
    /\ UNCHANGED <<db, now, issued>>
    /\ UNCHANGED contactVars
    /\ UNCHANGED mgmtVars

\* -------------------------------------------- PUT /api/auth/change-password
\* validation, Admin.findById(req.admin.id), comparePassword and the
\* assignment admin.password = newPassword
\* a change-password that does not verify the current password
ChangePasswordFindResult_NoVerify(req, currentPassword, newPassword) ==
    LET body == [NoBody EXCEPT !.password = currentPassword,
                               !.newPassword = newPassword]
        admin == FindById(req.admin.id)
    IN  IF PwLength(body.password) = 0
           \/ PwLength(body.newPassword) < MinPasswordLen
        THEN Respond(req, 400, "Validation failed", NoToken)
        ELSE IF admin = NoDoc
        THEN Respond(req, 404, "Admin not found", NoToken)
        ELSE [req EXCEPT !.pc = "cp_save", !.body = body,
                         !.admin = NoAdmin,
                         !.doc = DocSet(admin, "password", body.newPassword)]

ChangePasswordFindResult(req, currentPassword, newPassword) ==
    LET body == [NoBody EXCEPT !.password = currentPassword,
                               !.newPassword = newPassword]
        admin == FindById(req.admin.id)
    IN  IF PwLength(body.password) = 0
           \/ PwLength(body.newPassword) < MinPasswordLen
        THEN Respond(req, 400, "Validation failed", NoToken)
        ELSE IF admin = NoDoc
        THEN Respond(req, 404, "Admin not found", NoToken)
        ELSE IF ~comparePassword(admin, body.password)
        THEN Respond(req, 400, "Current password is incorrect", NoToken)
        ELSE [req EXCEPT !.pc = "cp_save", !.body = body,
                         !.admin = NoAdmin,
                         !.doc = DocSet(admin, "password", body.newPassword)]

ChangePasswordFind(r, currentPassword, newPassword) ==
    /\ reqs[r].pc = "handler"
    /\ reqs' = [reqs EXCEPT ![r] =
                  ChangePasswordFindResult(@, currentPassword, newPassword)]
    /\ UNCHANGED <<db, now, issued>>
    /\ UNCHANGED contactVars
    /\ UNCHANGED mgmtVars

\* a save that writes the password as assigned
ChangePasswordSave_Unhashed(r) ==
    /\ reqs[r].pc = "cp_save"
    /\ db' = [db EXCEPT ![reqs[r].doc.id].password = reqs[r].doc.password]
    /\ reqs' = [reqs EXCEPT ![r] =
                  Respond(@, 200, "Password changed successfully", NoToken)]
    /\ UNCHANGED <<now, issued>>
    /\ UNCHANGED contactVars
    /\ UNCHANGED mgmtVars

\* admin.save() and the response
ChangePasswordSave(r) ==
    /\ reqs[r].pc = "cp_save"
    /\ LET admin == reqs[r].doc
       IN IF SaveOk(admin)
          THEN /\ db' = SaveDb(admin)
               /\ reqs' = [reqs EXCEPT ![r] =
                             Respond(@, 200, "Password changed successfully",
                                     NoToken)]
          ELSE /\ reqs' = [reqs EXCEPT ![r] =
                             Respond(@, 500, "Failed to change password",
                                     NoToken)]
               /\ UNCHANGED db
    /\ UNCHANGED <<now, issued>>
    /\ UNCHANGED contactVars
    /\ UNCHANGED mgmtVars

\* ------------------------------------------------- POST /api/auth/register
\* a register without the role check
RegisterCheckResult_AnyRole(req, username, email, password, role) ==
    LET body == [NoBody EXCEPT !.username = username, !.email = email,
                               !.password = password, !.role = role]
        existingAdmin == FindOne({a \in AdminIds :
                                    /\ Exists(a)
                                    /\ (db[a].username = body.username
                                         \/ db[a].email = body.email)})
    IN  IF PwLength(body.password) < MinPasswordLen
        THEN Respond(req, 400, "Validation failed", NoToken)
        ELSE IF existingAdmin # NoDoc
        THEN Respond(req, 409,
               "Admin with this username or email already exists", NoToken)
        ELSE [req EXCEPT !.pc = "reg_save", !.admin = NoAdmin,
                         !.doc = NewAdmin(0, body.username, body.email,
                                          body.password, body.role)]

\* the role check, validation and Admin.findOne({$or: [{username}, {email}]})
RegisterCheckResult(req, username, email, password, role) ==
    LET body == [NoBody EXCEPT !.username = username, !.email = email,
                               !.password = password, !.role = role]
        existingAdmin == FindOne({a \in AdminIds :
                                    /\ Exists(a)
                                    /\ (db[a].username = body.username
                                         \/ db[a].email = body.email)})
    IN  IF req.admin.role # "super_admin"
        THEN Respond(req, 403,
               "Only super admins can create new admin accounts", NoToken)
        ELSE IF PwLength(body.password) < MinPasswordLen
        THEN Respond(req, 400, "Validation failed", NoToken)
        ELSE IF existingAdmin # NoDoc
        THEN Respond(req, 409,
               "Admin with this username or email already exists", NoToken)
        ELSE [req EXCEPT !.pc = "reg_save", !.admin = NoAdmin,
                         !.doc = NewAdmin(0, body.username, body.email,
                                          body.password, body.role)]

RegisterCheck(r, username, email, password, role) ==
    /\ reqs[r].pc = "handler"
    /\ reqs' = [reqs EXCEPT ![r] =
                  RegisterCheckResult(@, username, email, password, role)]
    /\ reqs'[r].pc = "reg_save" => \E a \in AdminIds : ~Exists(a)
    /\ UNCHANGED <<db, now, issued>>
    /\ UNCHANGED contactVars
    /\ UNCHANGED mgmtVars

\* admin.save() and the response
RegisterSave(r) ==
    /\ reqs[r].pc = "reg_save"
    /\ IF SaveOk(reqs[r].doc)
       THEN /\ db' = SaveDb(reqs[r].doc)
            /\ reqs' = [reqs EXCEPT ![r] =
                          Respond(@, 201, "Admin created successfully",
                                  NoToken)]
       ELSE /\ reqs' = [reqs EXCEPT ![r] =
                          Respond(@, 500, "Failed to create admin account",
                                  NoToken)]
            /\ UNCHANGED db
    /\ UNCHANGED <<now, issued>>
    /\ UNCHANGED contactVars
    /\ UNCHANGED mgmtVars

\* The request bodies clients send
CurrentPasswords  == {Plain(p) : p \in Plaintexts \cup {""}}
NewPasswords(r)   == {Plain(p) : p \in Plaintexts}
                       \cup {FindById(reqs[r].admin.id).password}
RegisterPasswords == {Plain(SeedPassword), Plain("abc")}
RegisterRoles     == {"admin"}

Next ==
    \/ Tick
    \/ \E a \in AdminIds : Deactivate(a)
    \/ Setup
    \/ \E r \in Slots, i \in LoginIdentifiers, p \in LoginPasswords :
           LoginFind(r, i, p)
    \/ \E r \in Slots : LoginSave(r)
    \/ \E r \in Slots, token \in PresentedTokens : AuthStart(r, token)
    \/ \E r \in Slots : AuthLookup(r)
    \/ \E r \in Slots : Logout(r)
    \/ \E r \in Slots, c \in CurrentPasswords :
           \E n \in NewPasswords(r) : ChangePasswordFind(r, c, n)
    \/ \E r \in Slots : ChangePasswordSave(r)
    \/ \E r \in Slots, u \in Usernames, e \in Emails, ro \in RegisterRoles :
           \E p \in RegisterPasswords : RegisterCheck(r, u, e, p, ro)
    \/ \E r \in Slots : RegisterSave(r)

Spec == Init /\ [][Next]_vars

\* ------------------------------------------------------------ test server
\* test-server.js serves the same admins collection through the same Admin
\* model, with routes that ask for no session.

\* POST /api/admin/create: Admin.findOne({username: 'superadmin'})
CreateFind(r) ==
    /\ Free(r)
    /\ LET existingAdmin == FindOne({a \in AdminIds :
                                Exists(a) /\ db[a].username = SeedUsername})
           req == NewReq(NoToken)
       IN IF existingAdmin # NoDoc
          THEN reqs' = [reqs EXCEPT ![r] =
                          Respond(req, 200, "Admin already exists", NoToken)]
          ELSE /\ \E a \in AdminIds : ~Exists(a)
               /\ reqs' = [reqs EXCEPT ![r] =
                    [req EXCEPT !.pc = "create_save",
                                !.doc = NewAdmin(0, SeedUsername, SeedEmail,
                                                 Plain(SeedPassword),
                                                 "super_admin")]]
    /\ UNCHANGED <<db, now, issued>>
    /\ UNCHANGED contactVars
    /\ UNCHANGED mgmtVars

\* admin.save() and the response
CreateSave(r) ==
    /\ reqs[r].pc = "create_save"
    /\ IF SaveOk(reqs[r].doc)
       THEN /\ db' = SaveDb(reqs[r].doc)
            /\ reqs' = [reqs EXCEPT ![r] =
                          Respond(@, 200, "Admin user created successfully",
                                  NoToken)]
       ELSE /\ reqs' = [reqs EXCEPT ![r] =
                          Respond(@, 500, "Failed to create admin user",
                                  NoToken)]
            /\ UNCHANGED db
    /\ UNCHANGED <<now, issued>>
    /\ UNCHANGED contactVars
    /\ UNCHANGED mgmtVars

\* POST /api/admin/create-user: the presence test and
\* Admin.findOne({$or: [{username}, {email}]})
CreateUserFindResult(username, email, password, role) ==
    LET req == NewReq(NoToken)
        existingAdmin == FindOne({a \in AdminIds :
                                    /\ Exists(a)
                                    /\ (db[a].username = username
                                         \/ db[a].email = email)})
    IN  IF username = "" \/ email = "" \/ PwLength(password) = 0
        THEN Respond(req, 400,
               "Username, email, and password are required", NoToken)
        ELSE IF existingAdmin # NoDoc
        THEN Respond(req, 400,
               "Admin with this username or email already exists", NoToken)
        ELSE [req EXCEPT !.pc = "cu_save",
                         !.doc = NewAdmin(0, username, email, password,
                                    IF role = "" THEN "admin" ELSE role)]

CreateUserFind(r, username, email, password, role) ==
    /\ Free(r)
    /\ reqs' = [reqs EXCEPT ![r] =
                  CreateUserFindResult(username, email, password, role)]
    /\ reqs'[r].pc = "cu_save" => \E a \in AdminIds : ~Exists(a)
    /\ UNCHANGED <<db, now, issued>>
    /\ UNCHANGED contactVars
    /\ UNCHANGED mgmtVars

\* admin.save() and the response
CreateUserSave(r) ==
    /\ reqs[r].pc = "cu_save"
    /\ IF SaveOk(reqs[r].doc)
       THEN /\ db' = SaveDb(reqs[r].doc)
            /\ reqs' = [reqs EXCEPT ![r] =
                          Respond(@, 200, "Admin user created successfully",
                                  NoToken)]
       ELSE /\ reqs' = [reqs EXCEPT ![r] =
                          Respond(@, 500, "Failed to create admin user",
                                  NoToken)]
            /\ UNCHANGED db
    /\ UNCHANGED <<now, issued>>
    /\ UNCHANGED contactVars
    /\ UNCHANGED mgmtVars

\* POST /api/admin/change-password: the administrator is named in the body
TestChangePasswordFindResult(username, currentPassword, newPassword) ==
    LET req == NewReq(NoToken)
        body == [NoBody EXCEPT !.username = username,
                               !.password = currentPassword,
                               !.newPassword = newPassword]
        admin == FindOne({a \in AdminIds :
                            Exists(a) /\ db[a].username = username})
    IN  IF PwLength(currentPassword) = 0 \/ PwLength(newPassword) = 0
           \/ username = ""
        THEN Respond(req, 400,
               "Current password, new password, and username are required",
               NoToken)
        ELSE IF admin = NoDoc
        THEN Respond(req, 404, "Admin not found", NoToken)
        ELSE IF ~comparePassword(admin, currentPassword)
        THEN Respond(req, 401, "Current password is incorrect", NoToken)
        ELSE [req EXCEPT !.pc = "tcp_save", !.body = body,
                         !.doc = DocSet(admin, "password", newPassword)]

TestChangePasswordFind(r, username, currentPassword, newPassword) ==
    /\ Free(r)
    /\ reqs' = [reqs EXCEPT ![r] =
          TestChangePasswordFindResult(username, currentPassword, newPassword)]
    /\ UNCHANGED <<db, now, issued>>
    /\ UNCHANGED contactVars
    /\ UNCHANGED mgmtVars

\* admin.save() and the response
TestChangePasswordSave(r) ==
    /\ reqs[r].pc = "tcp_save"
    /\ IF SaveOk(reqs[r].doc)
       THEN /\ db' = SaveDb(reqs[r].doc)
            /\ reqs' = [reqs EXCEPT ![r] =
                          Respond(@, 200, "Password changed successfully",
                                  NoToken)]
       ELSE /\ reqs' = [reqs EXCEPT ![r] =
                          Respond(@, 500, "Failed to change password",
                                  NoToken)]
            /\ UNCHANGED db
    /\ UNCHANGED <<now, issued>>
    /\ UNCHANGED contactVars
    /\ UNCHANGED mgmtVars

\* GET /api/admin/reset-password/:username/:newPassword.  Admin.findOne
\* without select('+password') loads the document without its password, so
\* the assignment always modifies the path.
ResetPasswordFindResult(username, newPassword) ==
    LET req == NewReq(NoToken)
        admin == FindOne({a \in AdminIds :
                            Exists(a) /\ db[a].username = username})
    IN  IF admin = NoDoc
        THEN Respond(req, 404, "Admin not found", NoToken)
        ELSE [req EXCEPT !.pc = "reset_save",
                         !.body = [NoBody EXCEPT !.newPassword = newPassword],
                         !.doc = DocSet([admin EXCEPT !.password = NoPassword],
                                        "password", newPassword)]

ResetPasswordFind(r, username, newPassword) ==
    /\ Free(r)
    /\ reqs' = [reqs EXCEPT ![r] =
                  ResetPasswordFindResult(username, newPassword)]
    /\ UNCHANGED <<db, now, issued>>
    /\ UNCHANGED contactVars
    /\ UNCHANGED mgmtVars

\* admin.save() and the response
ResetPasswordSave(r) ==
    /\ reqs[r].pc = "reset_save"
    /\ IF SaveOk(reqs[r].doc)
       THEN /\ db' = SaveDb(reqs[r].doc)
            /\ reqs' = [reqs EXCEPT ![r] =
                          Respond(@, 200, "Password updated", NoToken)]
       ELSE /\ reqs' = [reqs EXCEPT ![r] =
                          Respond(@, 500, "Failed to reset password",
                                  NoToken)]
            /\ UNCHANGED db
    /\ UNCHANGED <<now, issued>>
    /\ UNCHANGED contactVars
    /\ UNCHANGED mgmtVars

\* The bodies and paths the test server is sent; a client may also send the
\* hash string of a password as the new password
CreateUserPasswords == {Plain("newpass1"), Plain("abc")}
CreateUserRoles     == {""}
StoredHashes        == {db[a].password : a \in {b \in AdminIds : Exists(b)}}
                         \cap {BcryptHash(Plain(SeedPassword))}
ResetPasswords      == {Plain("newpass1"), Plain("abc")} \cup StoredHashes
TestNewPasswords    == {Plain("newpass1"), Plain("abc")}
StorePasswords      == {Plain(SeedPassword), Plain("newpass1")}

\* Both servers on one database: every operation that writes the admins
\* collection, with the logins and the middleware the main server's writes
\* need.  The clock stands still and no administrator is deactivated.
StoreNext ==
    \/ Setup
    \/ \E r \in Slots, i \in Usernames, p \in StorePasswords :
           LoginFind(r, i, p)
    \/ \E r \in Slots : LoginSave(r)
    \/ \E r \in Slots, token \in issued : AuthStart(r, token)
    \/ \E r \in Slots : AuthLookup(r)
    \/ \E r \in Slots, c \in StorePasswords :
           \E n \in NewPasswords(r) : ChangePasswordFind(r, c, n)
    \/ \E r \in Slots : ChangePasswordSave(r)
    \/ \E r \in Slots, u \in Usernames, e \in Emails, ro \in RegisterRoles :
           \E p \in RegisterPasswords : RegisterCheck(r, u, e, p, ro)
    \/ \E r \in Slots : RegisterSave(r)
    \/ \E r \in Slots : CreateFind(r)
    \/ \E r \in Slots : CreateSave(r)
    \/ \E r \in Slots, u \in Usernames, e \in Emails, ro \in CreateUserRoles :
           \E p \in CreateUserPasswords : CreateUserFind(r, u, e, p, ro)
    \/ \E r \in Slots : CreateUserSave(r)
    \/ \E r \in Slots, u \in Usernames, c \in StorePasswords :
           \E n \in TestNewPasswords : TestChangePasswordFind(r, u, c, n)
    \/ \E r \in Slots : TestChangePasswordSave(r)
    \/ \E r \in Slots, u \in Usernames :
           \E n \in ResetPasswords : ResetPasswordFind(r, u, n)
    \/ \E r \in Slots : ResetPasswordSave(r)

StoreSpec == Init /\ [][StoreNext]_vars

\* ------------------------------------------------- main server, /api routes
\* The clock advances by d units.
Elapse(d, limit) ==
    /\ now + d <= limit
    /\ now' = now + d
    /\ UNCHANGED <<db, reqs, issued, contactVars, mgmtVars>>

\* a contact limiter configured with the general limiter's max
ApiResult_WrongMax(ip, route, email, message) ==
    LET req == NewCReq(ip, route)
        general == Hit(hits[ip].general, GeneralWindow, now)
        contact == Hit(hits[ip].contact, ContactWindow, now)
        body == [email |-> NormalizeEmail(email), message |-> message]
    IN  IF general.count > GeneralMax
        THEN [req |-> CRespond(req, 429, GeneralLimitMessage, 0),
              hits |-> [hits[ip] EXCEPT !.general = general]]
        ELSE IF route \notin ContactPaths
        THEN [req |-> [req EXCEPT !.pc = "routed"],
              hits |-> [hits[ip] EXCEPT !.general = general]]
        ELSE IF contact.count > GeneralMax
        THEN [req |-> CRespond(req, 429, ContactLimitMessage, 0),
              hits |-> [general |-> general, contact |-> contact]]
        ELSE IF route # "contact"
        THEN [req |-> [req EXCEPT !.pc = route],
              hits |-> [general |-> general, contact |-> contact]]
        ELSE IF Len(body.message) < MinMessageLen
        THEN [req |-> CRespond(req, 400, "Validation failed", 0),
              hits |-> [general |-> general, contact |-> contact]]
        ELSE [req |-> [req EXCEPT !.pc = "contact_find", !.body = body,
                                  !.since = now - DupWindow],
              hits |-> [general |-> general, contact |-> contact]]

\* a server that mounts the contact limiter on every /api route
ApiResult_ContactLimiterOnAll(ip, route, email, message) ==
    LET req == NewCReq(ip, route)
        general == Hit(hits[ip].general, GeneralWindow, now)
        contact == Hit(hits[ip].contact, ContactWindow, now)
        body == [email |-> NormalizeEmail(email), message |-> message]
    IN  IF general.count > GeneralMax
        THEN [req |-> CRespond(req, 429, GeneralLimitMessage, 0),
              hits |-> [hits[ip] EXCEPT !.general = general]]
        ELSE IF contact.count > ContactMax
        THEN [req |-> CRespond(req, 429, ContactLimitMessage, 0),
              hits |-> [general |-> general, contact |-> contact]]
        ELSE IF route \notin ContactPaths
        THEN [req |-> [req EXCEPT !.pc = "routed"],
              hits |-> [general |-> general, contact |-> contact]]
        ELSE IF route # "contact"
        THEN [req |-> [req EXCEPT !.pc = route],
              hits |-> [general |-> general, contact |-> contact]]
        ELSE IF Len(body.message) < MinMessageLen
        THEN [req |-> CRespond(req, 400, "Validation failed", 0),
              hits |-> [general |-> general, contact |-> contact]]
        ELSE [req |-> [req EXCEPT !.pc = "contact_find", !.body = body,
                                  !.since = now - DupWindow],
              hits |-> [general |-> general, contact |-> contact]]

\* a contact limiter mounted on the submission route alone
ApiResult_SubmissionsOnly(ip, route, email, message) ==
    LET req == NewCReq(ip, route)
        general == Hit(hits[ip].general, GeneralWindow, now)
        contact == Hit(hits[ip].contact, ContactWindow, now)
        body == [email |-> NormalizeEmail(email), message |-> message]
    IN  IF general.count > GeneralMax
        THEN [req |-> CRespond(req, 429, GeneralLimitMessage, 0),
              hits |-> [hits[ip] EXCEPT !.general = general]]
        ELSE IF route \notin ContactPaths
        THEN [req |-> [req EXCEPT !.pc = "routed"],
              hits |-> [hits[ip] EXCEPT !.general = general]]
        ELSE IF route # "contact"
        THEN [req |-> [req EXCEPT !.pc = route],
              hits |-> [hits[ip] EXCEPT !.general = general]]
        ELSE IF contact.count > ContactMax
        THEN [req |-> CRespond(req, 429, ContactLimitMessage, 0),
              hits |-> [general |-> general, contact |-> contact]]
        ELSE IF Len(body.message) < MinMessageLen
        THEN [req |-> CRespond(req, 400, "Validation failed", 0),
              hits |-> [general |-> general, contact |-> contact]]
        ELSE [req |-> [req EXCEPT !.pc = "contact_find", !.body = body,
                                  !.since = now - DupWindow],
              hits |-> [general |-> general, contact |-> contact]]

\* app.use('/api/', limiter), app.use('/api/contact', contactLimiter, ...)
\* and, for POST /api/contact, the validators and the start of the handler
\* up to the query it awaits; the two other routes of contactRoutes.js go on
\* to their handlers.  The result is the request and the counters.
ApiResult(ip, route, email, message) ==
    LET req == NewCReq(ip, route)
        general == Hit(hits[ip].general, GeneralWindow, now)
        contact == Hit(hits[ip].contact, ContactWindow, now)
        body == [email |-> NormalizeEmail(email), message |-> message]
    IN  IF general.count > GeneralMax
        THEN [req |-> CRespond(req, 429, GeneralLimitMessage, 0),
              hits |-> [hits[ip] EXCEPT !.general = general]]
        ELSE IF route \notin ContactPaths
        THEN [req |-> [req EXCEPT !.pc = "routed"],
              hits |-> [hits[ip] EXCEPT !.general = general]]
        ELSE IF contact.count > ContactMax
        THEN [req |-> CRespond(req, 429, ContactLimitMessage, 0),
              hits |-> [general |-> general, contact |-> contact]]
        ELSE IF route # "contact"
        THEN [req |-> [req EXCEPT !.pc = route],
              hits |-> [general |-> general, contact |-> contact]]
        ELSE IF Len(body.message) < MinMessageLen
        THEN [req |-> CRespond(req, 400, "Validation failed", 0),
              hits |-> [general |-> general, contact |-> contact]]
        ELSE [req |-> [req EXCEPT !.pc = "contact_find", !.body = body,
                                  !.since = now - DupWindow],
              hits |-> [general |-> general, contact |-> contact]]

ApiRequest(r, ip, route, email, message) ==
    /\ CFree(r)
    /\ LET res == ApiResult(ip, route, email, message)
       IN /\ creqs' = [creqs EXCEPT ![r] = res.req]
          /\ hits' = [hits EXCEPT ![ip] = res.hits]
    /\ UNCHANGED <<db, now, reqs, issued, contacts, notified>>
    /\ UNCHANGED mgmtVars

\* new Contact({email, message, ipAddress, ...}) as the collection stores
\* it: the Contact schema stamps the record with the time of its creation
\* and gives it the status 'new'
NewContact(req) ==
    [email |-> req.body.email, message |-> req.body.message,
     createdAt |-> now, ipAddress |-> req.ip, status |-> "new"]

\* a query with $gt in place of $gte
ExistingContact_Exclusive(req) ==
    {i \in 1..Len(contacts) :
        /\ contacts[i].email = req.body.email
        /\ contacts[i].message = req.body.message
        /\ contacts[i].createdAt > req.since}

\* a query without the createdAt condition
ExistingContact_NoWindow(req) ==
    {i \in 1..Len(contacts) :
        /\ contacts[i].email = req.body.email
        /\ contacts[i].message = req.body.message}

\* Contact.findOne({email, message, createdAt: {$gte: fiveMinutesAgo}})
ExistingContact(req) ==
    {i \in 1..Len(contacts) :
        /\ contacts[i].email = req.body.email
        /\ contacts[i].message = req.body.message
        /\ contacts[i].createdAt >= req.since}

ContactFindResult(req) ==
    IF ExistingContact(req) # {}
    THEN CRespond(req, 429, DuplicateMessage, 0)
    ELSE [req EXCEPT !.pc = "contact_save"]

\* a handler that saves and notifies before it looks for a duplicate
ContactFind_SaveFirst(r) ==
    /\ creqs[r].pc = "contact_find"
    /\ creqs' = [creqs EXCEPT ![r] =
         IF ExistingContact(@) # {}
         THEN CRespond(@, 429, DuplicateMessage, 0)
         ELSE CRespond(@, 201, ThanksMessage, Len(contacts) + 1)]
    /\ contacts' = Append(contacts, NewContact(creqs[r]))
    /\ notified' = notified \cup {Len(contacts) + 1}
    /\ UNCHANGED <<db, now, reqs, issued, hits>>
    /\ UNCHANGED mgmtVars

ContactFind(r) ==
    /\ creqs[r].pc = "contact_find"
    /\ creqs' = [creqs EXCEPT ![r] = ContactFindResult(@)]
    /\ UNCHANGED <<db, now, reqs, issued, contacts, hits, notified>>
    /\ UNCHANGED mgmtVars

\* an insert that is refused when the duplicate has appeared meanwhile
ContactSave_Atomic(r) ==
    /\ creqs[r].pc = "contact_save"
    /\ IF ExistingContact(creqs[r]) # {}
       THEN /\ creqs' = [creqs EXCEPT ![r] = CRespond(@, 429, DuplicateMessage, 0)]
            /\ UNCHANGED <<contacts, notified>>
       ELSE /\ contacts' = Append(contacts, NewContact(creqs[r]))
            /\ notified' = notified \cup {Len(contacts) + 1}
            /\ creqs' = [creqs EXCEPT ![r] = CRespond(@, 201, ThanksMessage, Len(contacts) + 1)]
    /\ UNCHANGED <<db, now, reqs, issued, hits>>
    /\ UNCHANGED mgmtVars

\* a handler that awaits the notification and reports its failure
ContactSave_Awaiting(r) ==
    /\ creqs[r].pc = "contact_save"
    /\ \E outcome \in MailOutcomes :
         LET id == Len(contacts) + 1
         IN /\ contacts' = Append(contacts, NewContact(creqs[r]))
            /\ notified' = notified \cup {id}
            /\ mailLog' = mailLog \cup {[kind |-> "notification", id |-> id,
                                          outcome |-> outcome]}
            /\ creqs' = [creqs EXCEPT ![r] =
                 IF outcome \in MailFailures
                 THEN CRespond(@, 500, SubmitFailedMessage, 0)
                 ELSE CRespond(@, 201, ThanksMessage, id)]
    /\ UNCHANGED <<db, now, reqs, issued, hits, held>>

\* new Contact({...}), contact.save(), sendNotificationEmail(contact) and
\* the response
ContactSave(r) ==
    /\ creqs[r].pc = "contact_save"
    /\ LET contact == NewContact(creqs[r])
           id == Len(contacts) + 1
       IN /\ contacts' = Append(contacts, contact)
          /\ notified' = notified \cup {id}
          /\ creqs' = [creqs EXCEPT ![r] = CRespond(@, 201, ThanksMessage, id)]
    /\ UNCHANGED <<db, now, reqs, issued, hits>>
    /\ UNCHANGED mgmtVars

\* The promise of sendNotificationEmail(contact) settles, after the handler
\* that made the call has answered: the mail went out, the send was skipped
\* for want of configuration (the promise resolves), or the transporter's
\* construction or the send threw (the promise rejects and the caller's
\* .catch logs it).
NotifySettle(id, outcome) ==
    /\ id \in notified
    /\ \A m \in mailLog : ~(m.kind = "notification" /\ m.id = id)
    /\ mailLog' = mailLog \cup {[kind |-> "notification", id |-> id,
                                  outcome |-> outcome]}
    /\ UNCHANGED <<db, now, reqs, issued, contactVars, held>>

\* The test server's POST /api/contact: the required-fields test, new
\* Contact, contact.save(), the call of sendNotificationEmail and the
\* response.  It has no validators, no duplicate check and no limiter.
TestContact(r, ip, email, message) ==
    /\ CFree(r)
    /\ LET req == [NewCReq(ip, "test_contact") EXCEPT
                     !.body = [email |-> email, message |-> message]]
           id == Len(contacts) + 1
       IN IF email = "" \/ message = ""
          THEN /\ creqs' = [creqs EXCEPT ![r] =
                    CRespond(req, 400,
                             "Name, email, and message are required", 0)]
               /\ UNCHANGED <<contacts, notified>>
          ELSE /\ contacts' = Append(contacts, NewContact(req))
               /\ notified' = notified \cup {id}
               /\ creqs' = [creqs EXCEPT ![r] =
                    CRespond(req, 201, ThanksMessage, id)]
    /\ UNCHANGED <<db, now, reqs, issued, hits>>
    /\ UNCHANGED mgmtVars

\* the contacts stored and about to be stored
Submitted ==
    Len(contacts) + Cardinality({r \in Slots :
                        creqs[r].pc \in {"contact_find", "contact_save"}})

\* The notifications in use: a few submissions to either server, and the
\* mails they set off ending one way or another
MailNext ==
    \/ Elapse(DupWindow, MaxClock)
    \/ \E r \in Slots, ip \in IPs, m \in QuotaMessages :
           /\ Submitted < MaxMails
           /\ hits[ip].general.count < MaxMails
           /\ ApiRequest(r, ip, "contact", "visitor@example.com", m)
    \/ \E r \in Slots : ContactFind(r)
    \/ \E r \in Slots : ContactSave(r)
    \/ \E r \in Slots, ip \in IPs, m \in {"Please call me back", ""} :
           /\ Submitted < MaxMails
           /\ TestContact(r, ip, "visitor@example.com", m)
    \/ \E id \in notified, outcome \in MailOutcomes :
           NotifySettle(id, outcome)

MailSpec == Init /\ [][MailNext]_vars

\* The contact form in use: a bounded burst of requests over a few minutes,
\* all of them within one window of the general limiter
ContactNext ==
    \/ Elapse(DupWindow, MaxClock)
    \/ \E r \in Slots, ip \in IPs, route \in ApiRoutes :
         \E e \in ContactEmails, m \in ContactMessages :
           /\ hits[ip].general.count < MaxBurst
           /\ hits[ip].general.count > 0 => now < hits[ip].general.resetTime
           /\ ApiRequest(r, ip, route, e, m)
    \/ \E r \in Slots : ContactFind(r)
    \/ \E r \in Slots : ContactSave(r)

ContactSpec == Init /\ [][ContactNext]_vars

\* GET /api/contact/stats: Contact.countDocuments() and the response
ContactStats(r) ==
    /\ creqs[r].pc = "contact_stats"
    /\ creqs' = [creqs EXCEPT ![r] = CRespond(@, 200, "", 0)]
    /\ UNCHANGED <<db, now, reqs, issued, contacts, hits, notified>>
    /\ UNCHANGED mgmtVars

\* POST /api/contact/verify with body {contactId}; 0 stands for a body
\* without the field
ContactVerify(r, contactId) ==
    /\ creqs[r].pc = "contact_verify"
    /\ creqs' = [creqs EXCEPT ![r] =
         IF contactId = 0
         THEN CRespond(@, 400, "Contact ID is required", 0)
         ELSE IF contactId \notin DOMAIN contacts
         THEN CRespond(@, 404, "Contact submission not found", 0)
         ELSE CRespond(@, 200, "", contactId)]
    /\ UNCHANGED <<db, now, reqs, issued, contacts, hits, notified>>
    /\ UNCHANGED mgmtVars

\* The contact routes in use: one address sends requests to the three
\* routes until the contact limiter has turned one away
LimiterNext ==
    \/ Elapse(DupWindow, MaxClock)
    \/ \E r \in Slots, ip \in IPs, route \in ContactPaths :
         \E m \in QuotaMessages :
           /\ Hit(hits[ip].contact, ContactWindow, now).count
                <= ContactMax + 1
           /\ ApiRequest(r, ip, route, "visitor@example.com", m)
    \/ \E r \in Slots : ContactFind(r)
    \/ \E r \in Slots : ContactSave(r)
    \/ \E r \in Slots : ContactStats(r)
    \/ \E r \in Slots, id \in 0..2 : ContactVerify(r, id)

LimiterSpec == Init /\ [][LimiterNext]_vars

\* The quotas in use: requests over two general windows, as many as it
\* takes to pass each quota by one

QuotaNext ==
    \/ Elapse(GeneralWindow, MaxQuotaClock)
    \/ \E r \in Slots, ip \in IPs, route \in ApiRoutes :
         \E m \in QuotaMessages :
           /\ Hit(hits[ip].general, GeneralWindow, now).count
                <= GeneralMax + 1
           /\ (route = "contact"
                 /\ Hit(hits[ip].general, GeneralWindow, now).count
                      <= GeneralMax) =>
                Hit(hits[ip].contact, ContactWindow, now).count
                  <= ContactMax + 1
           /\ ApiRequest(r, ip, route, "visitor@example.com", m)
    \/ \E r \in Slots : ContactFind(r)
    \/ \E r \in Slots : ContactSave(r)

QuotaSpec == Init /\ [][QuotaNext]_vars

\* ------------------------------------------- main server, /api/admin routes
\* These routes run behind router.use(authenticateAdmin): a request is at
\* "handler" once the middleware has let it through.

\* Contact.findById(id): throws a CastError for a malformed id, gives null
\* for an id no stored contact has
Lookup(id) ==
    IF id = MalformedId THEN "CastError"
    ELSE IF id \in DOMAIN contacts /\ contacts[id] # DeletedContact
    THEN "found"
    ELSE "null"

\* the ids a client puts in the path
PathIds == (1..(Len(contacts) + 1)) \cup {MalformedId}

\* the handler's contact when the response has gone out
Answered(h) == [NoHeld EXCEPT !.id = h.id]

\* contact.save() of a loaded contact: the modified path is written
SaveContact(h) ==
    IF h.modified
    THEN [contacts EXCEPT ![h.id].status = h.status]
    ELSE contacts

\* GET /api/admin/contacts and GET /api/admin/export/contacts
ListContacts(r, path, filter) ==
    /\ reqs[r].pc = "handler"
    /\ IF path = "contacts" /\ filter \notin ContactStatuses \cup {""}
       THEN /\ reqs' = [reqs EXCEPT ![r] =
                 Respond(@, 400, "Invalid query parameters", NoToken)]
            /\ held' = [held EXCEPT ![r] = NoHeld]
       ELSE /\ reqs' = [reqs EXCEPT ![r] = Respond(@, 200, "", NoToken)]
            /\ held' = [held EXCEPT ![r] = NoHeld]
    /\ UNCHANGED <<db, now, issued, mailLog>>
    /\ UNCHANGED contactVars

\* GET /api/admin/contacts/:id up to the save it awaits
ViewFind(r, id) ==
    /\ reqs[r].pc = "handler"
    /\ LET h == [NoHeld EXCEPT !.id = id]
           found == Lookup(id)
       IN IF found = "CastError"
          THEN /\ reqs' = [reqs EXCEPT ![r] =
                    Respond(@, 500, "Failed to fetch contact", NoToken)]
               /\ held' = [held EXCEPT ![r] = h]
          ELSE IF found = "null"
          THEN /\ reqs' = [reqs EXCEPT ![r] =
                    Respond(@, 404, "Contact not found", NoToken)]
               /\ held' = [held EXCEPT ![r] = h]
          ELSE IF contacts[id].status = "new"
          THEN /\ reqs' = [reqs EXCEPT ![r].pc = "view_save"]
               /\ held' = [held EXCEPT ![r] =
                    [h EXCEPT !.status = "read", !.modified = TRUE]]
          ELSE /\ reqs' = [reqs EXCEPT ![r] = Respond(@, 200, "", NoToken)]
               /\ held' = [held EXCEPT ![r] = Answered(h)]
    /\ UNCHANGED <<db, now, issued, mailLog>>
    /\ UNCHANGED contactVars

\* contact.save() of the view and the response.  A save whose document has
\* been deleted meanwhile matches nothing and throws.
ViewSave(r) ==
    /\ reqs[r].pc = "view_save"
    /\ IF Lookup(held[r].id) # "found"
       THEN /\ reqs' = [reqs EXCEPT ![r] =
                 Respond(@, 500, "Failed to fetch contact", NoToken)]
            /\ held' = [held EXCEPT ![r] = Answered(@)]
            /\ UNCHANGED contacts
       ELSE /\ contacts' = SaveContact(held[r])
            /\ reqs' = [reqs EXCEPT ![r] = Respond(@, 200, "", NoToken)]
            /\ held' = [held EXCEPT ![r] = Answered(@)]
    /\ UNCHANGED <<db, now, issued, hits, creqs, notified, mailLog>>

\* PUT /api/admin/contacts/:id with body {status} ("" is a body without the
\* field) up to the save it awaits
UpdateFind(r, id, status) ==
    /\ reqs[r].pc = "handler"
    /\ LET h == [NoHeld EXCEPT !.id = id]
           found == Lookup(id)
       IN IF status \notin ContactStatuses \cup {""}
          THEN /\ reqs' = [reqs EXCEPT ![r] =
                    Respond(@, 400, "Validation failed", NoToken)]
               /\ held' = [held EXCEPT ![r] = h]
          ELSE IF found = "CastError"
          THEN /\ reqs' = [reqs EXCEPT ![r] =
                    Respond(@, 500, "Failed to update contact", NoToken)]
               /\ held' = [held EXCEPT ![r] = h]
          ELSE IF found = "null"
          THEN /\ reqs' = [reqs EXCEPT ![r] =
                    Respond(@, 404, "Contact not found", NoToken)]
               /\ held' = [held EXCEPT ![r] = h]
          ELSE /\ reqs' = [reqs EXCEPT ![r].pc = "update_save"]
               /\ held' = [held EXCEPT ![r] =
                    IF status = "" \/ status = contacts[id].status
                    THEN [h EXCEPT !.status = contacts[id].status]
                    ELSE [h EXCEPT !.status = status, !.modified = TRUE]]
    /\ UNCHANGED <<db, now, issued, mailLog>>
    /\ UNCHANGED contactVars

\* contact.save() of the update and the response
UpdateSave(r) ==
    /\ reqs[r].pc = "update_save"
    /\ IF held[r].modified /\ Lookup(held[r].id) # "found"
       THEN /\ reqs' = [reqs EXCEPT ![r] =
                 Respond(@, 500, "Failed to update contact", NoToken)]
            /\ held' = [held EXCEPT ![r] = Answered(@)]
            /\ UNCHANGED contacts
       ELSE /\ contacts' = SaveContact(held[r])
            /\ reqs' = [reqs EXCEPT ![r] =
                 Respond(@, 200, "Contact updated successfully", NoToken)]
            /\ held' = [held EXCEPT ![r] = Answered(@)]
    /\ UNCHANGED <<db, now, issued, hits, creqs, notified, mailLog>>

\* DELETE /api/admin/contacts/:id: Contact.findByIdAndDelete
DeleteContact(r, id) ==
    /\ reqs[r].pc = "handler"
    /\ LET found == Lookup(id)
       IN /\ reqs' = [reqs EXCEPT ![r] =
               IF found = "CastError"
               THEN Respond(@, 500, "Failed to delete contact", NoToken)
               ELSE IF found = "null"
               THEN Respond(@, 404, "Contact not found", NoToken)
               ELSE Respond(@, 200, "Contact deleted successfully", NoToken)]
          /\ contacts' = IF found = "found"
                         THEN [contacts EXCEPT ![id] = DeletedContact]
                         ELSE contacts
    /\ held' = [held EXCEPT ![r] = [NoHeld EXCEPT !.id = id]]
    /\ UNCHANGED <<db, now, issued, hits, creqs, notified, mailLog>>

\* POST /api/admin/contacts/:id/reply up to the mail it awaits; valid tells
\* whether subject and message pass the validators
ReplyFind(r, id, valid) ==
    /\ reqs[r].pc = "handler"
    /\ LET h == [NoHeld EXCEPT !.id = id]
           found == Lookup(id)
       IN IF ~valid
          THEN /\ reqs' = [reqs EXCEPT ![r] =
                    Respond(@, 400, "Validation failed", NoToken)]
               /\ held' = [held EXCEPT ![r] = h]
          ELSE IF found = "CastError"
          THEN /\ reqs' = [reqs EXCEPT ![r] =
                    Respond(@, 500, "Failed to send reply", NoToken)]
               /\ held' = [held EXCEPT ![r] = h]
          ELSE IF found = "null"
          THEN /\ reqs' = [reqs EXCEPT ![r] =
                    Respond(@, 404, "Contact not found", NoToken)]
               /\ held' = [held EXCEPT ![r] = h]
          ELSE /\ reqs' = [reqs EXCEPT ![r].pc = "reply_send"]
               /\ held' = [held EXCEPT ![r] =
                    [h EXCEPT !.status = contacts[id].status]]
    /\ UNCHANGED <<db, now, issued, mailLog>>
    /\ UNCHANGED contactVars

\* a handler that marks the contact as replied whatever became of the mail
ReplySend_Unchecked(r, outcome) ==
    /\ reqs[r].pc = "reply_send"
    /\ reqs' = [reqs EXCEPT ![r].pc = "reply_save"]
    /\ held' = [held EXCEPT ![r] =
         [@ EXCEPT !.mail = outcome, !.status = "replied",
                   !.modified = (held[r].status # "replied")]]
    /\ UNCHANGED <<db, now, issued, mailLog>>
    /\ UNCHANGED contactVars

\* await sendReplyEmail(...) returns or throws; on return the handler
\* assigns contact.status = 'replied'
ReplySend(r, outcome) ==
    /\ reqs[r].pc = "reply_send"
    /\ IF outcome \in MailFailures
       THEN /\ reqs' = [reqs EXCEPT ![r] =
                 Respond(@, 500, "Failed to send reply", NoToken)]
            /\ held' = [held EXCEPT ![r] = Answered(@)]
       ELSE /\ reqs' = [reqs EXCEPT ![r].pc = "reply_save"]
            /\ held' = [held EXCEPT ![r] =
                 [@ EXCEPT !.mail = outcome, !.status = "replied",
                           !.modified = (held[r].status # "replied")]]
    /\ UNCHANGED <<db, now, issued, mailLog>>
    /\ UNCHANGED contactVars

\* contact.save() of the reply and the response
ReplySave(r) ==
    /\ reqs[r].pc = "reply_save"
    /\ IF held[r].modified /\ Lookup(held[r].id) # "found"
       THEN /\ reqs' = [reqs EXCEPT ![r] =
                 Respond(@, 500, "Failed to send reply", NoToken)]
            /\ held' = [held EXCEPT ![r] = Answered(@)]
            /\ UNCHANGED contacts
       ELSE /\ contacts' = SaveContact(held[r])
            /\ reqs' = [reqs EXCEPT ![r] =
                 Respond(@, 200, "Reply sent successfully", NoToken)]
            /\ held' = [held EXCEPT ![r] = Answered(@)]
    /\ UNCHANGED <<db, now, issued, hits, creqs, notified, mailLog>>

\* ---------------------------------------- test server, contact management
\* None of these routes has a middleware in front of it.

\* GET /api/contacts and GET /api/admin/contacts
TestListContacts(r) ==
    /\ Free(r)
    /\ reqs' = [reqs EXCEPT ![r] =
                  Respond(NewReq(NoToken), 200, "", NoToken)]
    /\ held' = [held EXCEPT ![r] = NoHeld]
    /\ UNCHANGED <<db, now, issued, mailLog>>
    /\ UNCHANGED contactVars

\* DELETE /api/admin/contacts/:id
TestDeleteContact(r, id) ==
    /\ Free(r)
    /\ LET found == Lookup(id)
           req == NewReq(NoToken)
       IN /\ reqs' = [reqs EXCEPT ![r] =
               IF found = "CastError"
               THEN Respond(req, 500, "Failed to delete contact", NoToken)
               ELSE IF found = "null"
               THEN Respond(req, 404, "Contact not found", NoToken)
               ELSE Respond(req, 200, "Contact deleted successfully",
                            NoToken)]
          /\ contacts' = IF found = "found"
                         THEN [contacts EXCEPT ![id] = DeletedContact]
                         ELSE contacts
    /\ held' = [held EXCEPT ![r] = [NoHeld EXCEPT !.id = id]]
    /\ UNCHANGED <<db, now, issued, hits, creqs, notified, mailLog>>

\* PATCH /api/admin/contacts/:id/status: Contact.findByIdAndUpdate
TestPatchStatus(r, id, status) ==
    /\ Free(r)
    /\ LET found == Lookup(id)
           req == NewReq(NoToken)
           h == [NoHeld EXCEPT !.id = id]
       IN IF status \notin ContactStatuses
          THEN /\ reqs' = [reqs EXCEPT ![r] =
                    Respond(req, 400, "Invalid status", NoToken)]
               /\ held' = [held EXCEPT ![r] = h]
               /\ UNCHANGED contacts
          ELSE IF found = "CastError"
          THEN /\ reqs' = [reqs EXCEPT ![r] =
                    Respond(req, 500, "Failed to update contact status",
                            NoToken)]
               /\ held' = [held EXCEPT ![r] = h]
               /\ UNCHANGED contacts
          ELSE IF found = "null"
          THEN /\ reqs' = [reqs EXCEPT ![r] =
                    Respond(req, 404, "Contact not found", NoToken)]
               /\ held' = [held EXCEPT ![r] = h]
               /\ UNCHANGED contacts
          ELSE /\ reqs' = [reqs EXCEPT ![r] =
                    Respond(req, 200, "Contact status updated successfully",
                            NoToken)]
               /\ held' = [held EXCEPT ![r] = Answered(h)]
               /\ contacts' = [contacts EXCEPT ![id].status = status]
    /\ UNCHANGED <<db, now, issued, hits, creqs, notified, mailLog>>

\* POST /api/admin/contacts/:id/reply of the test server, in its three
\* steps: the find, the mail it awaits, the save
TestReplyFind(r, id, valid) ==
    /\ Free(r)
    /\ LET h == [NoHeld EXCEPT !.id = id]
           found == Lookup(id)
           req == NewReq(NoToken)
       IN IF ~valid
          THEN /\ reqs' = [reqs EXCEPT ![r] =
                    Respond(req, 400, "Subject and message are required",
                            NoToken)]
               /\ held' = [held EXCEPT ![r] = h]
          ELSE IF found = "CastError"
          THEN /\ reqs' = [reqs EXCEPT ![r] =
                    Respond(req, 500, "Failed to send reply: ", NoToken)]
               /\ held' = [held EXCEPT ![r] = h]
          ELSE IF found = "null"
          THEN /\ reqs' = [reqs EXCEPT ![r] =
                    Respond(req, 404, "Contact not found", NoToken)]
               /\ held' = [held EXCEPT ![r] = h]
          ELSE /\ reqs' = [reqs EXCEPT ![r] =
                    [req EXCEPT !.pc = "treply_send"]]
               /\ held' = [held EXCEPT ![r] =
                    [h EXCEPT !.status = contacts[id].status]]
    /\ UNCHANGED <<db, now, issued, mailLog>>
    /\ UNCHANGED contactVars

TestReplySend(r, outcome) ==
    /\ reqs[r].pc = "treply_send"
    /\ IF outcome \in MailFailures
       THEN /\ reqs' = [reqs EXCEPT ![r] =
                 Respond(@, 500, "Failed to send reply: ", NoToken)]
            /\ held' = [held EXCEPT ![r] = Answered(@)]
       ELSE /\ reqs' = [reqs EXCEPT ![r].pc = "treply_save"]
            /\ held' = [held EXCEPT ![r] =
                 [@ EXCEPT !.mail = outcome, !.status = "replied",
                           !.modified = (held[r].status # "replied")]]
    /\ UNCHANGED <<db, now, issued, mailLog>>
    /\ UNCHANGED contactVars

TestReplySave(r) ==
    /\ reqs[r].pc = "treply_save"
    /\ IF held[r].modified /\ Lookup(held[r].id) # "found"
       THEN /\ reqs' = [reqs EXCEPT ![r] =
                 Respond(@, 500, "Failed to send reply: ", NoToken)]
            /\ held' = [held EXCEPT ![r] = Answered(@)]
            /\ UNCHANGED contacts
       ELSE /\ contacts' = SaveContact(held[r])
            /\ reqs' = [reqs EXCEPT ![r] =
                 Respond(@, 200, "Reply sent successfully", NoToken)]
            /\ held' = [held EXCEPT ![r] = Answered(@)]
    /\ UNCHANGED <<db, now, issued, hits, creqs, notified, mailLog>>

\* ------------------------------------------- contact management, both servers
\* what clients put in the status field and in the status filter
StatusInputs == {"resolved", "", "urgent"}

\* what became of the mail sendReplyEmail was asked to send
ReplyOutcomes == {"sent"} \cup MailFailures

AdminNext ==
    \/ Setup
    \/ \E r \in Slots :
           /\ issued = {}
           /\ LoginFind(r, SeedUsername, Plain(SeedPassword))
    \/ \E r \in Slots : LoginSave(r)
    \/ \E r \in Slots, token \in issued \cup {NoToken} : AuthStart(r, token)
    \/ \E r \in Slots : AuthLookup(r)
    \/ \E r \in Slots, ip \in IPs :
           /\ Len(contacts) < MaxContacts
           /\ TestContact(r, ip, "visitor@example.com", "Please call me back")
    \/ \E r \in Slots, path \in {"contacts", "export/contacts"} :
           \E filter \in StatusInputs : ListContacts(r, path, filter)
    \/ \E r \in Slots, id \in PathIds : ViewFind(r, id)
    \/ \E r \in Slots : ViewSave(r)
    \/ \E r \in Slots, id \in PathIds, status \in StatusInputs :
           UpdateFind(r, id, status)
    \/ \E r \in Slots : UpdateSave(r)
    \/ \E r \in Slots, id \in PathIds : DeleteContact(r, id)
    \/ \E r \in Slots, id \in PathIds, valid \in BOOLEAN :
           ReplyFind(r, id, valid)
    \/ \E r \in Slots, outcome \in ReplyOutcomes : ReplySend(r, outcome)
    \/ \E r \in Slots : ReplySave(r)
    \/ \E r \in Slots : TestListContacts(r)
    \/ \E r \in Slots, id \in PathIds : TestDeleteContact(r, id)
    \/ \E r \in Slots, id \in PathIds, status \in StatusInputs :
           TestPatchStatus(r, id, status)
    \/ \E r \in Slots, id \in PathIds, valid \in BOOLEAN :
           TestReplyFind(r, id, valid)
    \/ \E r \in Slots, outcome \in ReplyOutcomes : TestReplySend(r, outcome)
    \/ \E r \in Slots : TestReplySave(r)

AdminSpec == Init /\ [][AdminNext]_vars

\* ------------------------------------------------------------------ claims
Active(a) == a \in AdminIds /\ Exists(a) /\ db[a].isActive

\* the slot r took a step
Stepped(r) == reqs'[r] # reqs[r]

\* the payload jwt.sign was given for a document
Payload(t) == [id |-> t.id, username |-> t.username, role |-> t.role]

\* C1: in every reachable state, a login naming an active administrator by
\* username or email, with the password its stored hash verifies, is not
\* turned away; and a login that got that far ends with status 200 and a
\* token whose payload is the id, username and role of that administrator.
C1_LoginIssuesToken ==
    /\ [](\A i \in LoginIdentifiers, p \in LoginPasswords, a \in AdminIds :
            (/\ Active(a)
             /\ (db[a].username = i \/ db[a].email = i)
             /\ BcryptCompare(p, db[a].password))
            => /\ LoginFindResult(i, p).pc = "login_save"
               /\ LoginFindResult(i, p).doc = db[a])
    /\ [][\A r \in Slots : (reqs[r].pc = "login_save" /\ Stepped(r)) =>
            /\ reqs'[r].pc = "done"
            /\ reqs'[r].status = 200
            /\ reqs'[r].resToken.sig = "server"
            /\ reqs'[r].resToken \in issued'
            /\ Payload(reqs'[r].resToken)
                 = [id |-> reqs[r].doc.id,
                    username |-> reqs[r].doc.username,
                    role |-> reqs[r].doc.role]
            /\ reqs[r].doc.id \in AdminIds
            /\ db[reqs[r].doc.id].username = reqs[r].doc.username
            /\ db[reqs[r].doc.id].role = reqs[r].doc.role]_vars

\* the second administrator logged in and got a token of its own
C1_Witness ==
    \E r \in Slots :
        /\ reqs[r].pc = "done" /\ reqs[r].status = 200
        /\ reqs[r].resToken.id = 2
        /\ reqs[r].resToken.username = "editor"
        /\ reqs[r].resToken.role = "admin"

\* the administrators an identifier names, active or not
Named(i) ==
    {a \in AdminIds :
        Exists(a) /\ (db[a].username = Trim(i) \/ db[a].email = Trim(i))}

InvalidCredentials ==
    Respond(NewReq(NoToken), 401, "Invalid credentials", NoToken)

\* C2: in every reachable state, a login that passes validation and names no
\* administrator, or names one with a password its hash does not verify, or
\* names an inactive one, gets one and the same response: status 401,
\* message "Invalid credentials", nothing else.
C2_GenericFailure ==
    \A i \in LoginIdentifiers, p \in LoginPasswords :
        (/\ Trim(i) # "" /\ PwLength(p) > 0
         /\ \/ Named(i) = {}
            \/ \E a \in Named(i) : ~BcryptCompare(p, db[a].password)
            \/ \E a \in Named(i) : ~db[a].isActive)
        => LoginFindResult(i, p) = InvalidCredentials

\* a login was answered "Invalid credentials" in a state where an unknown
\* identifier, a wrong password for an active administrator and the right
\* password of an inactive administrator are all to hand
C2_Witness ==
    /\ \E r \in Slots : reqs[r] = InvalidCredentials
    /\ Named("ghost") = {}
    /\ Active(1) /\ ~BcryptCompare(Plain("newpass1"), db[1].password)
    /\ Exists(2) /\ ~db[2].isActive
    /\ BcryptCompare(Plain(SeedPassword), db[2].password)
    /\ LoginFindResult("editor", Plain(SeedPassword)) = InvalidCredentials

\* C3: a request passes authenticateAdmin only from the lookup, with a token
\* whose signature verified and whose expiry lay ahead when jwt.verify ran,
\* and with the administrator the token names present and active at the
\* lookup; req.admin is that administrator; a request leaves the middleware
\* in no other way than this or with a 401, and the handlers' saves are
\* reached from a passed request only.
C3_AcceptOnlyValid ==
    [][\A r \in Slots : Stepped(r) =>
         /\ reqs'[r].pc = "auth_lookup" =>
              /\ IsFree(r)
              /\ reqs'[r].token.sig = "server"
              /\ reqs'[r].token \in issued
              /\ now < reqs'[r].token.exp
         /\ reqs'[r].pc = "handler" =>
              /\ reqs[r].pc = "auth_lookup"
              /\ Active(reqs[r].token.id)
              /\ reqs'[r].admin.id = reqs[r].token.id
              /\ reqs'[r].admin.role = db[reqs[r].token.id].role
         /\ (reqs[r].pc = "auth_lookup" /\ reqs'[r].pc # "handler") =>
              /\ reqs'[r].pc = "done"
              /\ reqs'[r].status = 401
              /\ db' = db
         /\ reqs'[r].pc \in {"cp_save", "reg_save"} =>
              reqs[r].pc = "handler"]_vars

\* the second administrator's request was let through
C3_Witness ==
    \E r \in Slots :
        /\ reqs[r].pc = "handler"
        /\ reqs[r].admin.id = 2
        /\ reqs[r].admin.role = "admin"

\* authenticateAdmin from the header to next(), run in one state
AuthResult(token) ==
    LET req == AuthStartResult(token, now)
    IN  IF req.pc = "auth_lookup" THEN AuthLookupResult(req) ELSE req

Inactive401(req) ==
    /\ req.pc = "done"
    /\ req.status = 401
    /\ req.message = "Access denied. Invalid token or inactive account."

\* C4: in every reachable state, a request waiting for the lookup whose token
\* names an administrator that is inactive or absent is answered 401 by the
\* lookup, and a token of such an administrator presented now is answered
\* 401 by the middleware, however good its signature and expiry; an
\* administrator once inactive stays inactive.
C4_DeactivationRejects ==
    /\ [](/\ \A r \in Slots :
               (reqs[r].pc = "auth_lookup" /\ ~Active(reqs[r].token.id))
               => Inactive401(AuthLookupResult(reqs[r]))
          /\ \A t \in issued :
               ~Active(t.id) =>
                   /\ AuthResult(t).pc = "done"
                   /\ AuthResult(t).status = 401
                   /\ now < t.exp => Inactive401(AuthResult(t)))
    /\ [][\A a \in AdminIds :
            (Exists(a) /\ ~db[a].isActive) => ~db'[a].isActive]_vars

\* a token still good by signature and expiry was refused because its
\* administrator had been deactivated
C4_Witness ==
    \E r \in Slots :
        /\ Inactive401(reqs[r])
        /\ reqs[r].token \in issued
        /\ now < reqs[r].token.exp
        /\ Exists(reqs[r].token.id)
        /\ ~db[reqs[r].token.id].isActive

TokenExpired(req) ==
    /\ req.pc = "done"
    /\ req.status = 401
    /\ req.message = "Access denied. Token expired."

\* C5: in every reachable state, an issued token presented before its expiry
\* passes jwt.verify and, its administrator being active, the lookup; the
\* same token presented at or after its expiry is answered 401 "Token
\* expired", now and at every later time; the clock does not run backwards.
C5_ExpiryRejects ==
    /\ [](\A t \in issued :
            /\ now < t.exp =>
                 /\ AuthStartResult(t, now).pc = "auth_lookup"
                 /\ Active(t.id) => AuthResult(t).pc = "handler"
            /\ \A later \in now..(MaxTime + 1) :
                 later >= t.exp => TokenExpired(AuthStartResult(t, later)))
    /\ [][now' >= now]_vars

\* the only token of the first administrator, accepted when it registered
\* the second one, was refused as expired
C5_Witness ==
    \E r \in Slots :
        /\ TokenExpired(reqs[r])
        /\ reqs[r].token \in issued
        /\ reqs[r].token.id = 1
        /\ Cardinality({t \in issued : t.id = 1}) = 1
        /\ Active(1)
        /\ Exists(2)

\* C6: in every reachable state the middleware answers a missing token with
\* 401 "No token provided" before any lookup, a malformed or wrongly signed
\* token with 401 "Invalid token", an expired token with 401 "Token
\* expired"; the three answers differ and none has status 500.
C6_VerificationFailures ==
    \A t \in PresentedTokens, at \in Times :
        LET req == AuthStartResult(t, at) IN
        /\ req.status # 500
        /\ t = NoToken =>
             /\ req.pc = "done" /\ req.status = 401
             /\ req.message = "Access denied. No token provided."
        /\ t.sig \in {"malformed", "forged"} =>
             /\ req.pc = "done" /\ req.status = 401
             /\ req.message = "Access denied. Invalid token."
        /\ (t.sig = "server" /\ at >= t.exp) =>
             /\ req.pc = "done" /\ req.status = 401
             /\ req.message = "Access denied. Token expired."
        /\ req.pc # "done" => (t.sig = "server" /\ at < t.exp)

\* one request was refused for a bad signature and another for expiry
C6_Witness ==
    \E r, q \in Slots :
        /\ reqs[r].pc = "done" /\ reqs[r].status = 401
        /\ reqs[r].message = "Access denied. Invalid token."
        /\ reqs[r].token.sig = "forged"
        /\ TokenExpired(reqs[q])
        /\ reqs[q].token \in issued

\* C7: in every reachable state, whatever logouts, password changes and
\* logins came before, an issued token that has not expired and whose
\* administrator is active passes the middleware; logout changes neither
\* the collection nor the tokens nor the clock; no token is ever taken back.
C7_NoRevocation ==
    /\ [](\A t \in issued :
            (now < t.exp /\ Active(t.id)) =>
                /\ AuthResult(t).pc = "handler"
                /\ AuthResult(t).admin.id = t.id)
    /\ [][/\ \A r \in Slots :
               (Stepped(r) /\ reqs'[r].message = "Logout successful")
               => /\ reqs[r].pc = "handler"
                  /\ UNCHANGED <<db, now, issued>>
          /\ issued \subseteq issued']_vars

\* the first administrator's only token passed the middleware with the
\* password changed since it was issued and a logout answered
C7_Witness ==
    \E r, q \in Slots :
        /\ reqs[r].pc = "handler"
        /\ reqs[r].admin.id = 1
        /\ Cardinality({t \in issued : t.id = 1}) = 1
        /\ db[1].password.pt = "newpass1"
        /\ reqs[q].pc = "done"
        /\ reqs[q].message = "Logout successful"

ChangedOk(r) ==
    /\ reqs[r].pc = "cp_save"
    /\ Stepped(r)
    /\ reqs'[r].status = 200

C9_VerifiesCurrentPassword ==
    /\ [](\A r \in Slots : reqs[r].pc = "handler" =>
            \A c \in CurrentPasswords, n \in NewPasswords(r) :
                LET res == ChangePasswordFindResult(reqs[r], c, n)
                    stored == FindById(reqs[r].admin.id)
                IN  IF stored # NoDoc /\ comparePassword(stored, c)
                    THEN res.pc = "cp_save" =>
                           /\ res.doc.id = reqs[r].admin.id
                           /\ res.body.password = c
                    ELSE /\ res.pc = "done"
                         /\ res.status \in {400, 404})
    /\ [][\A r \in Slots : Stepped(r) =>
            /\ reqs[r].pc = "handler" => db' = db
            /\ reqs[r].pc = "cp_save" =>
                 \A a \in AdminIds :
                     /\ a # reqs[r].doc.id => db'[a] = db[a]
                     /\ [db'[a] EXCEPT !.password = db[a].password] = db[a]
            /\ (reqs[r].pc = "cp_save" /\ reqs'[r].status # 200) =>
                 db' = db]_vars

\* a change-password with a wrong current password was refused
C9_Witness ==
    \E r \in Slots :
        /\ reqs[r].pc = "done" /\ reqs[r].status = 400
        /\ reqs[r].message = "Current password is incorrect"

\* C10: every stored password is a plaintext hashed exactly once; a save
\* made with the password modified stores the hash of the assigned
\* plaintext, and a save made without (login's updateLastLogin, a
\* change-password that assigned the stored value) leaves it as it was.
C10_HashOnlyWhenModified ==
    /\ [](\A a \in AdminIds : Exists(a) => IsHash(db[a].password))
    /\ [][/\ \A r \in Slots : Stepped(r) =>
               /\ reqs[r].pc = "login_save" =>
                    \A a \in AdminIds : db'[a].password = db[a].password
               /\ (reqs[r].pc = "cp_save" /\ reqs'[r].status = 200) =>
                    db'[reqs[r].doc.id].password =
                        IF "password" \in reqs[r].doc.modified
                        THEN BcryptHash(reqs[r].body.newPassword)
                        ELSE db[reqs[r].doc.id].password
               /\ (reqs[r].pc = "reg_save" /\ reqs'[r].status = 201) =>
                    \E a \in AdminIds :
                        /\ ~Exists(a)
                        /\ db'[a].password = BcryptHash(reqs[r].doc.password)
          /\ \A a \in AdminIds :
               (db[a] # NoDoc /\ db'[a].password # db[a].password) =>
                   \E r \in Slots : reqs[r].pc = "cp_save" /\ Stepped(r)]_vars

\* an administrator's record has been saved by a login and by a
\* change-password, and holds the hash of the new password
C10_Witness ==
    \E a \in AdminIds :
        /\ Exists(a)
        /\ db[a].lastLogin # NoDate
        /\ db[a].password = BcryptHash(Plain("newpass1"))

\* C12: in every reachable state no two administrator records share a
\* username and no two share an email, whatever registrations ran
\* concurrently.
C12_UniqueAdmins ==
    \A a, b \in AdminIds :
        (a # b /\ Exists(a) /\ Exists(b)) =>
            /\ db[a].username # db[b].username
            /\ db[a].email # db[b].email

\* two registrations of the same administrator both passed the existence
\* check; one was saved and the other refused by the index
C12_Witness ==
    \E r, q \in Slots :
        /\ reqs[r].pc = "done" /\ reqs[r].status = 201
        /\ reqs[q].pc = "done"
        /\ reqs[q].message = "Failed to create admin account"
        /\ Cardinality({a \in AdminIds : Exists(a)}) = 2

Forbidden(req) ==
    /\ req.pc = "done"
    /\ req.status = 403
    /\ req.message = "Only super admins can create new admin accounts"

\* C13: in every reachable state a request that passed the middleware with
\* a role other than super_admin is answered 403 by register whatever its
\* body; register goes on to its save only for a super_admin, and only from
\* a request that passed the middleware; the step that answers 403 writes
\* nothing, and an administrator record appears only by setup or by the
\* save of such a register.
C13_RegisterNeedsSuperAdmin ==
    /\ [](\A r \in Slots : reqs[r].pc = "handler" =>
            \A u \in Usernames, e \in Emails, p \in RegisterPasswords,
               ro \in RegisterRoles :
                LET res == RegisterCheckResult(reqs[r], u, e, p, ro)
                IN  /\ reqs[r].admin.role # "super_admin" => Forbidden(res)
                    /\ res.pc = "reg_save" =>
                           /\ reqs[r].admin.role = "super_admin"
                           /\ Active(reqs[r].admin.id) =>
                                  db[reqs[r].admin.id].role = "super_admin")
    /\ [][/\ \A r \in Slots : Stepped(r) =>
               /\ reqs'[r].pc = "reg_save" =>
                      /\ reqs[r].pc = "handler"
                      /\ reqs[r].admin.role = "super_admin"
               /\ Forbidden(reqs'[r]) =>
                      /\ reqs[r].pc = "handler"
                      /\ reqs[r].admin.role # "super_admin"
                      /\ db' = db
          /\ \A a \in AdminIds : (~Exists(a) /\ db'[a] # NoDoc) =>
               \/ \A b \in AdminIds : ~Exists(b)
               \/ \E r \in Slots :
                      /\ reqs[r].pc = "reg_save"
                      /\ reqs'[r].status = 201]_vars

\* the second administrator, role admin, asked to register and was refused
C13_Witness ==
    \E r \in Slots :
        /\ Forbidden(reqs[r])
        /\ Exists(2) /\ db[2].role = "admin"
        /\ Cardinality({a \in AdminIds : Exists(a)}) = 2

\* C14: a register by a super_admin whose username or email belongs to an
\* existing administrator is answered 409 and creates no record, at the
\* existence check and also at the save of a request that passed the check
\* before a concurrent registration of the same name was saved.
C14_Duplicate409 ==
    /\ [](\A r \in Slots :
            (reqs[r].pc = "handler" /\ reqs[r].admin.role = "super_admin")
            => \A u \in Usernames, e \in Emails :
                 (\E a \in AdminIds :
                     Exists(a) /\ (db[a].username = u \/ db[a].email = e))
                 => RegisterCheckResult(reqs[r], u, e, Plain(SeedPassword),
                                        "admin").status = 409)
    /\ [][\A r \in Slots :
            (Stepped(r) /\ reqs[r].pc = "reg_save"
               /\ UniqueViolation(reqs[r].doc))
            => /\ reqs'[r].status = 409
               /\ db' = db]_vars

\* the documents about to be saved, as their handlers assigned them
Saving ==
    {reqs[r].doc : r \in {q \in Slots :
        reqs[q].pc \in {"login_save", "cp_save", "reg_save", "create_save",
                        "cu_save", "tcp_save", "reset_save"}}}

\* C11: in every reachable state of the store under setup, register,
\* create, create-user, both change-passwords, reset-password and login,
\* every stored password is the output of the one-way hash; whenever a
\* stored password appears or changes it is the hash of the value that was
\* submitted and differs from that value.
C11_PasswordAtRestHashed ==
    /\ [](\A a \in AdminIds : Exists(a) => db[a].password.rounds >= 1)
    /\ [][\A a \in AdminIds :
            (db'[a] # NoDoc /\ db'[a].password # db[a].password) =>
                \E submitted \in {d.password : d \in Saving}
                                   \cup {Plain(SeedPassword)} :
                    /\ db'[a].password = BcryptHash(submitted)
                    /\ db'[a].password # submitted]_vars

\* one administrator was created by create-user, the other had its password
\* reset to a hash string, which was hashed again, and has logged in
C11_Witness ==
    \E a, b \in AdminIds :
        /\ Exists(a) /\ Exists(b)
        /\ db[a].username = "editor"
        /\ db[a].password = BcryptHash(Plain("newpass1"))
        /\ db[b].password = BcryptHash(BcryptHash(Plain(SeedPassword)))
        /\ db[b].lastLogin # NoDate

\* the slot r of the main server's /api routes took a step
CStepped(r) == creqs'[r] # creqs[r]

Duplicate429(req) ==
    req.pc = "done" /\ req.status = 429 /\ req.message = DuplicateMessage

\* the stored submissions with the email and message of a request
Same(req) ==
    {i \in DOMAIN contacts :
        /\ contacts[i].email = req.body.email
        /\ contacts[i].message = req.body.message}

\* C15: in every reachable state a contact request that passed validation
\* and awaits its check is rejected as a duplicate (429) by that check if
\* and only if a stored submission has its email and its message and was
\* created no more than 5 minutes before the request's own clock reading,
\* exactly 5 minutes included; that reading is the time the request came in,
\* and the duplicate answer is given by no other step.
C15_DuplicateIff ==
    /\ [](\A r \in Slots : creqs[r].pc = "contact_find" =>
            LET checkedAt == creqs[r].since + DupWindow IN
            Duplicate429(ContactFindResult(creqs[r]))
              <=> \E i \in Same(creqs[r]) :
                      checkedAt - contacts[i].createdAt <= DupWindow)
    /\ [][\A r \in Slots : CStepped(r) =>
            /\ creqs'[r].pc = "contact_find" =>
                 creqs'[r].since + DupWindow = now
            /\ Duplicate429(creqs'[r]) => creqs[r].pc = "contact_find"]_vars

\* a request awaits its check with a stored twin created exactly 5 minutes
\* before it came in, and the check will reject it
C15_Witness ==
    \E r \in Slots :
        /\ creqs[r].pc = "contact_find"
        /\ \E i \in Same(creqs[r]) :
             contacts[i].createdAt + DupWindow = now
        /\ creqs[r].since + DupWindow = now
        /\ Duplicate429(ContactFindResult(creqs[r]))

\* C16: a contact request whose check finds a stored submission with its
\* email and message created within the 5 minutes before the request came
\* in is answered 429 "Duplicate submission" and stores nothing; one whose
\* stored twins were all created more than 5 minutes before it came in goes
\* on to its save, and the save answers 201 and appends the record.
C16_ResubmitAfterWindow ==
    [][\A r \in Slots : CStepped(r) =>
         /\ creqs[r].pc = "contact_find" =>
              IF \E i \in Same(creqs[r]) :
                     contacts[i].createdAt >= creqs[r].since
              THEN /\ Duplicate429(creqs'[r])
                   /\ contacts' = contacts
              ELSE creqs'[r].pc = "contact_save"
         /\ creqs[r].pc = "contact_save" =>
              /\ creqs'[r].pc = "done"
              /\ creqs'[r].status = 201
              /\ Len(contacts') = Len(contacts) + 1
              /\ contacts'[creqs'[r].id].email = creqs[r].body.email
              /\ contacts'[creqs'[r].id].message = creqs[r].body.message
              /\ contacts'[creqs'[r].id].createdAt = now]_vars

\* the same email and message are stored twice, more than 5 minutes apart,
\* the second answered 201, and a duplicate was turned away
C16_Witness ==
    \E r, q \in Slots :
        /\ creqs[r].pc = "done" /\ creqs[r].status = 201
        /\ creqs[r].id = 2
        /\ Len(contacts) = 2
        /\ contacts[1].email = contacts[2].email
        /\ contacts[1].message = contacts[2].message
        /\ contacts[2].createdAt - contacts[1].createdAt > DupWindow
        /\ Duplicate429(creqs[q])

\* the hits the limiter holds against a request arriving now
Used(w) == IF now < w.resetTime THEN w.count ELSE 0

ContactLimited(req) ==
    req.pc = "done" /\ req.status = 429 /\ req.message = ContactLimitMessage

GeneralLimited(req) ==
    req.pc = "done" /\ req.status = 429 /\ req.message = GeneralLimitMessage

\* C17: in every reachable state, once the contact limiter has counted 5
\* requests of an address in its current one-hour window, a further request
\* of that address to /api/contact is answered 429 by a limiter whatever
\* its email and message, never reaches the handler, and the step that
\* answers it writes no record and notifies nobody.
C17_SixthRejected ==
    /\ [](\A ip \in IPs, e \in ContactEmails, m \in ContactMessages :
            Used(hits[ip].contact) >= ContactMax =>
                LET res == ApiResult(ip, "contact", e, m).req IN
                /\ ContactLimited(res) \/ GeneralLimited(res)
                /\ Used(hits[ip].general) < GeneralMax => ContactLimited(res))
    /\ [][\A r \in Slots :
            (CStepped(r) /\ ContactLimited(creqs'[r])) =>
                /\ IsCFree(r)
                /\ Used(hits[creqs'[r].ip].contact) >= ContactMax
                /\ UNCHANGED <<contacts, notified>>]_vars

\* the sixth request of the hour was turned away after four were stored
C17_Witness ==
    \E r \in Slots :
        /\ ContactLimited(creqs[r])
        /\ hits[creqs[r].ip].contact.count = ContactMax + 1
        /\ Len(contacts) = 4

\* C18: in every reachable state a request to /api/contact passes the
\* limiters exactly when the address has room in the general quota and in
\* the contact quota; a request to /api/auth or /api/admin passes exactly
\* when the general quota has room, whatever the contact limiter holds; such
\* a request leaves the contact limiter's counter alone, and a request the
\* general limiter rejects does too.
C18_TiersIndependent ==
    \A ip \in IPs, route \in ApiRoutes, m \in QuotaMessages :
        LET res == ApiResult(ip, route, "visitor@example.com", m)
            generalRoom == Used(hits[ip].general) < GeneralMax
            contactRoom == Used(hits[ip].contact) < ContactMax
            passed == ~ContactLimited(res.req) /\ ~GeneralLimited(res.req)
        IN  /\ route = "contact" => (passed <=> generalRoom /\ contactRoom)
            /\ route # "contact" =>
                   /\ passed <=> generalRoom
                   /\ generalRoom => res.req.pc = "routed"
                   /\ res.hits.contact = hits[ip].contact
            /\ ~generalRoom =>
                   /\ GeneralLimited(res.req)
                   /\ res.hits.contact = hits[ip].contact
            /\ res.hits.general.count = Used(hits[ip].general) + 1

\* with the contact quota used up, a request to /api/admin was passed on in
\* the general limiter's second window
C18_Witness ==
    \E r \in Slots, ip \in IPs :
        /\ creqs[r].pc = "routed" /\ creqs[r].route = "admin"
        /\ creqs[r].ip = ip
        /\ Used(hits[ip].contact) > ContactMax
        /\ Used(hits[ip].general) = 1
        /\ now > GeneralWindow

\* C19: a step that answers a contact request as a duplicate or as
\* rate-limited leaves the stored submissions and the dispatched
\* notifications as they were; both change only in the save of a request
\* that passed the limiters and then the duplicate check, by one record and
\* the notification for that record.
C19_GatesBeforeWrite ==
    [][/\ \A r \in Slots : CStepped(r) =>
            /\ (Duplicate429(creqs'[r]) \/ ContactLimited(creqs'[r])
                  \/ GeneralLimited(creqs'[r])) =>
                 UNCHANGED <<contacts, notified>>
            /\ creqs'[r].pc = "contact_find" =>
                 /\ IsCFree(r)
                 /\ Used(hits[creqs'[r].ip].contact) < ContactMax
                 /\ Used(hits[creqs'[r].ip].general) < GeneralMax
            /\ creqs'[r].pc = "contact_save" =>
                 /\ creqs[r].pc = "contact_find"
                 /\ ~Duplicate429(ContactFindResult(creqs[r]))
       /\ <<contacts, notified>> # <<contacts', notified'>> =>
            \E r \in Slots :
                /\ creqs[r].pc = "contact_save"
                /\ CStepped(r)
                /\ Len(contacts') = Len(contacts) + 1
                /\ SubSeq(contacts', 1, Len(contacts)) = contacts
                /\ notified' = notified \cup {Len(contacts')}]_vars

\* one submission stored and notified, one request turned away as a
\* duplicate and one by the contact limiter
C19_Witness ==
    \E r, q \in Slots :
        /\ Duplicate429(creqs[r])
        /\ ContactLimited(creqs[q])
        /\ Len(contacts) = 1
        /\ notified = {1}

\* C20: the save of a contact request appends its record without looking
\* at the collection again, whatever was stored since its check: every
\* step out of the save stores one record more, also when a submission with
\* the same email and message created within the window is already there.
C20_CheckThenInsert ==
    [][\A r \in Slots :
         (CStepped(r) /\ creqs[r].pc = "contact_save") =>
            /\ Len(contacts') = Len(contacts) + 1
            /\ creqs'[r].status = 201]_vars

\* two submissions with the same email and message are stored, created
\* less than 5 minutes apart, both answered 201
C20_Witness ==
    \E r, q \in Slots :
        /\ r # q
        /\ creqs[r].status = 201 /\ creqs[q].status = 201
        /\ creqs[r].id # creqs[q].id
        /\ contacts[creqs[r].id].email = contacts[creqs[q].id].email
        /\ contacts[creqs[r].id].message = contacts[creqs[q].id].message
        /\ contacts[creqs[r].id].createdAt = contacts[creqs[q].id].createdAt

LoginOk(req) ==
    req.pc = "done" /\ req.status = 200 /\ req.message = "Login successful"

\* the answers of a login that failed
LoginFailed(r) ==
    \/ /\ IsFree(r)
       /\ reqs'[r].pc = "done"
       /\ reqs'[r].token = NoToken
       /\ reqs'[r].message \in {"Validation failed", "Invalid credentials"}
    \/ /\ reqs[r].pc = "login_save"
       /\ ~LoginOk(reqs'[r])

C28_LoginKeepsNewPassword ==
    [][\A r \in Slots :
         (Stepped(r) /\ reqs[r].pc = "login_save") =>
            /\ \A a \in AdminIds : db'[a].password = db[a].password
            /\ (LoginOk(reqs'[r])
                  /\ reqs[r].doc.password # db[reqs[r].doc.id].password) =>
                 /\ db'[reqs[r].doc.id].password # reqs[r].doc.password
                 /\ db'[reqs[r].doc.id].lastLogin = now]_vars

\* a password change has finished while a login that loaded the record
\* before it still awaits its save
C28_Witness ==
    \E r, q \in Slots :
        /\ reqs[r].pc = "login_save"
        /\ reqs[r].doc.password = BcryptHash(Plain(SeedPassword))
        /\ db[reqs[r].doc.id].password = BcryptHash(Plain("newpass1"))
        /\ reqs[q].pc = "done"
        /\ reqs[q].message = "Password changed successfully"

\* the requests that reached their save by way of comparePassword on the
\* current password they supplied
VerifiedCurrent(r) == reqs[r].pc \in {"cp_save", "tcp_save"}

\* C29: in both servers, a step that replaces the stored password of an
\* existing administrator is the save of a request that supplied that
\* administrator's current password and had it verified.
C29_PasswordNeedsCurrent ==
    [][\A a \in AdminIds :
         (Exists(a) /\ db'[a].password # db[a].password) =>
            \E r \in Slots :
                /\ Stepped(r)
                /\ VerifiedCurrent(r)
                /\ reqs[r].doc.id = a]_vars

\* C30: the contact limiter counts every request to a route of
\* contactRoutes.js that the general limiter lets through, and no answer
\* gives the count back: not a validation error, not a duplicate, not the
\* answers of /stats and /verify.  So in every reachable state with 5
\* requests counted in the window, a further request to any of the three
\* routes is answered 429 by a limiter, however few submissions are stored.
C30_EveryRequestCounts ==
    /\ [](\A ip \in IPs, route \in ContactPaths, m \in QuotaMessages :
            LET res == ApiResult(ip, route, "visitor@example.com", m) IN
            /\ ~GeneralLimited(res.req) =>
                 res.hits.contact.count = Used(hits[ip].contact) + 1
            /\ Used(hits[ip].contact) >= ContactMax =>
                 ContactLimited(res.req) \/ GeneralLimited(res.req))
    /\ [][\A r \in Slots : (CStepped(r) /\ ~IsCFree(r)) =>
            \A ip \in IPs : hits'[ip].contact = hits[ip].contact]_vars

\* the sixth request of the hour, one for the statistics, was turned away
\* with a single submission stored: the others were a duplicate, a message
\* too short and requests to /stats and /verify
C30_Witness ==
    \E r \in Slots :
        /\ ContactLimited(creqs[r])
        /\ creqs[r].route = "contact_stats"
        /\ hits[creqs[r].ip].contact.count = ContactMax + 1
        /\ Len(contacts) = 1

\* the notification for contact id has ended, and how
Notification(id) == {m \in mailLog : m.kind = "notification" /\ m.id = id}

\* C21: the step in which contact.save() returns answers 201 with the id of
\* the stored record, and at that moment the notification for the record
\* has been set off and has not ended; the step in which a notification
\* ends, whichever way (sent, skipped for want of configuration, failed in
\* the transporter's construction or in the send), changes no response and
\* no stored submission; and a submission answered 201 stays stored.
C21_NotifyDetached ==
    /\ [][\A r \in Slots :
            (CStepped(r) /\ creqs[r].pc = "contact_save") =>
               /\ creqs'[r].pc = "done" /\ creqs'[r].status = 201
               /\ creqs'[r].id \in notified' \ notified
               /\ Notification(creqs'[r].id) = {}]_vars
    /\ [][mailLog' # mailLog =>
            /\ creqs' = creqs
            /\ contacts' = contacts
            /\ \E m \in mailLog' \ mailLog : m.id \in DOMAIN contacts]_vars
    /\ [](\A r \in Slots :
            (creqs[r].pc = "done" /\ creqs[r].status = 201) =>
               /\ creqs[r].id \in DOMAIN contacts
               /\ contacts[creqs[r].id].message = creqs[r].body.message)

\* a submission to the main server was answered 201 and is stored, and its
\* notification failed in the transporter's construction; another one's
\* notification was skipped
C21_Witness ==
    \E r \in Slots :
        /\ creqs[r].pc = "done" /\ creqs[r].status = 201
        /\ creqs[r].route = "contact"
        /\ creqs[r].id \in DOMAIN contacts
        /\ \E m \in Notification(creqs[r].id) :
               m.outcome = "transporter_error"
        /\ \E i \in DOMAIN contacts :
               \E m \in Notification(i) : m.outcome = "skipped"

\* the positions of a reply handler that awaits sendReplyEmail
AwaitingMail == {"reply_send", "treply_send"}

\* the stored contacts a step changed or deleted
Touched == {i \in DOMAIN contacts : contacts'[i] # contacts[i]}

\* C26: in the admin router a reply handler is at its save only when the
\* mail it awaited was sent; the step that ends the wait changes no contact
\* and either goes on to the save, after a mail that was sent, or answers
\* 500; and the find before the wait changes no contact.
C26_RepliedAfterSent ==
    /\ [](\A r \in Slots :
            reqs[r].pc = "reply_save" =>
               held[r].mail = "sent" /\ held[r].status = "replied")
    /\ [][\A r \in Slots :
            (reqs[r].pc = "reply_send" /\ reqs'[r] # reqs[r]) =>
               /\ contacts' = contacts
               /\ \/ reqs'[r].pc = "reply_save" /\ held'[r].mail = "sent"
                  \/ reqs'[r].pc = "done" /\ reqs'[r].status = 500]_vars
    /\ [][\A r \in Slots :
            (reqs[r].pc = "handler" /\ reqs'[r].pc = "reply_send") =>
               contacts' = contacts]_vars

\* a reply through the admin router was answered 200 and its contact is
\* stored as replied, while another reply to the same contact, whose mail
\* failed, was answered 500
C26_Witness ==
    \E r \in Slots, q \in Slots :
        /\ reqs[r].pc = "done" /\ reqs[r].status = 200
        /\ reqs[r].message = "Reply sent successfully"
        /\ held[r].id \in DOMAIN contacts
        /\ contacts[held[r].id].status = "replied"
        /\ reqs[q].pc = "done" /\ reqs[q].status = 500
        /\ reqs[q].message = "Failed to send reply"
        /\ held[q].id = held[r].id

\* C22: no reply handler, of either server, waits for the mail before it
\* answers, and the end of a mail changes no response into an error.
C22_ReplyDetached ==
    /\ [](\A r \in Slots : reqs[r].pc \notin AwaitingMail)
    /\ [][\A r \in Slots :
            (reqs[r].pc \in AwaitingMail /\ reqs'[r].pc = "done") =>
               reqs'[r].status < 400]_vars

\* C23: a step that changes or deletes a stored contact is the step of a
\* request that the session middleware let through.
C23_ManagementNeedsSession ==
    [][Touched # {} =>
         \E r \in Slots :
             reqs'[r] # reqs[r] /\ reqs[r].admin # NoAdmin]_vars

\* C24: a request of the admin router whose contact id is malformed is
\* answered 404, or 400 when its body or query is refused first.
C24_MalformedIdIs404 ==
    [][\A r \in Slots :
          (/\ reqs[r].pc = "handler" /\ reqs'[r].pc = "done"
           /\ held'[r].id = MalformedId) =>
              reqs'[r].status \in {400, 404}]_vars

\* C27: the save of a view changes a contact only from 'new' to 'read'.
C27_ViewOnlyNewToRead ==
    [][\A r \in Slots :
          (reqs[r].pc = "view_save" /\ reqs'[r].pc = "done") =>
              \A i \in Touched :
                  /\ contacts[i].status = "new"
                  /\ contacts'[i].status = "read"]_vars

====
